---- MODULE Spec2Model ----
(***************************************************************************)
(* The audio core of the Chatbot component (src/unnamed/part_000): the     *)
(* playback scheduler scheduleAudio, the TTS drain loop processTtsQueue /  *)
(* processNextTts, the live-session audio path handleLiveMessage and the   *)
(* output toggle toggleAudio, on the browser's event loop.                 *)
(* isAudioPlayingRef is written by scheduleAudio and read nowhere: it is    *)
(* left out.                                                               *)
(*                                                                         *)
(* Time is counted in ticks of 50 ms: the lead-in of 0.05 s is 1 tick and  *)
(* the 0.5 s tolerance of onended is 10 ticks.                             *)
(*                                                                         *)
(* Event loop.  A handler runs to its next await without interruption.     *)
(* `await audioContext.resume()` waits for the device: any handler may run *)
(* meanwhile.  `await decodeAudioData(...)` awaits the promise of a local  *)
(* async function that holds no await itself, and `await promise` in       *)
(* processNextTts may find its promise settled: both continuations are     *)
(* microtasks, which the event loop runs before the next task.  Handlers   *)
(* dispatched as tasks (a click, onended, the completion of resume) are    *)
(* therefore disabled while such a continuation is pending; callbacks the  *)
(* SDK delivers from its own promise continuations (live messages, stream  *)
(* chunks, synthesis results) are not.                                     *)
(***************************************************************************)
EXTENDS Integers, Sequences, FiniteSets, TLC

\* Bounds of the model.
MaxItems == 3       \* audio producers created in a run: live messages + TTS jobs
MaxTime == 2        \* last tick of the device clock
MaxDur == 2         \* longest segment, in ticks
MaxMsgs == 4        \* longest message list
MaxSessions == 1    \* startLiveSession invocations in a run
MaxFragments == 2   \* transcription fragments accumulated in a turn
MaxPending == 3     \* updaters queued between two renders
LongDur == 10       \* a segment as long as the tolerance of onended, in ticks
LastTick == 13      \* last tick of the device clock while long segments play
MaxChunks == 3      \* chunks of a reply
MaxArray == 2       \* longest sample array given to createPcmBlob
MaxBytes == 5       \* longest byte array given to decodeAudioData
MaxChannels == 2    \* channels asked of decodeAudioData
BufferSize == 4     \* samples of a capture window (_bufferSize, 4096 in the code)
MaxFrame == 9       \* longest frame given to the capture processor
MaxSamples == 13    \* samples captured in a run
MaxPrior == 2       \* entries of earlier turns in the list given to streamChat
MaxQuestions == 3   \* questions of a quiz
MaxOptions == 2     \* options of a question
MaxSent == 6        \* longest message list after a second send

\* Program constants, in ticks of 50 ms.
LeadIn == 1         \* 0.05 s
Tolerance == 10     \* 0.5 s
InitialMessages == 1
DismissSeconds == 5 \* setTimeout(() => setLiveError(null), 5000)

Null == -1          \* messageIndex: null / currentlyPlayingIndex: null

\* The PCM conversions.
Int16Max == 32767   \* 0x7FFF
Int16Range == 32768 \* 0x8000, and the divisor 32768.0 of decodeAudioData

VARIABLES
    now,                    \* audioContext.currentTime
    outputAudioContext,     \* "none" (creation failed), "suspended", "running"
    audioQueue,             \* audioQueueRef.current
    isScheduling,           \* isSchedulingRef.current
    nextStartTime,          \* nextStartTimeRef.current
    audioSource,            \* audioSourceRef.current: id of the source, 0 = null
    device,                 \* the sources handed to the device by source.start
    passes,                 \* the scheduleAudio invocations suspended at an await
    ttsPromiseQueue,        \* ttsPromiseQueueRef.current
    ttsAwaited,             \* the job processNextTts awaits
    isProcessingTts,        \* isProcessingTtsRef.current
    isAudioEnabled,
    currentlyPlayingIndex,
    isLiveSessionActive,
    sessions,               \* the startLiveSession invocations and what each created
    microphoneStream,       \* microphoneStreamRef.current: index in sessions, 0 = null
    liveSessionRef,         \* liveSessionRef.current: index in sessions, 0 = null
    inputAudioContext,      \* inputAudioContextRef.current: index in sessions, 0 = null
    audioWorkletNode,       \* audioWorkletNodeRef.current: index in sessions, 0 = null
    liveError,              \* "none" (null), "start", "server", "init"
    timers,                 \* armed setTimeout calls: seconds left, oldest first
    currentUserTranscription,   \* currentUserTranscriptionRef.current
    currentModelTranscription,  \* currentModelTranscriptionRef.current
    modelFragments,         \* history: outputTranscription parts of the current turn
    pendingUpdates,         \* setMessages updaters queued for the next render
    isLoading,
    stream,                 \* the reply stream of handleSendMessage and its closure
    messages,               \* the message list
    nCreated,               \* live audio messages and TTS jobs created so far
    nPushed,                \* entries pushed to audioQueueRef so far
    fullText,               \* fullText of handleSendMessage: the reply so far
    nChunks,                \* history: chunks of the reply received so far
    spoken,                 \* history: the texts handed to textToSpeech, in order
    flushed,                \* history: length of fullText at the last of them
    buffer,                 \* PcmProcessor._buffer
    bytesWritten,           \* PcmProcessor._bytesWritten
    posted,                 \* the messages posted on the processor's port, in order
    captured,               \* history: the samples given to process, in order
    samples,                \* the Float32Array given to createPcmBlob
    blob,                   \* the base64 string of a blob or of a segment
    numChannels,            \* numChannels given to decodeAudioData
    audioBuffer,            \* what decodeAudioData gave
    codecStep,              \* "idle", "samples", "blob", "buffer": what has been made
    uplink,                 \* the port of the capture node and sessionPromise
    chat,                   \* streamChat: its messages argument and its history
    quiz                    \* the state of QuizModal

vars == <<now, outputAudioContext, audioQueue, isScheduling, nextStartTime,
          audioSource, device, passes, ttsPromiseQueue,
          ttsAwaited, isProcessingTts, isAudioEnabled, currentlyPlayingIndex,
          isLiveSessionActive, sessions, microphoneStream, liveSessionRef,
          inputAudioContext, audioWorkletNode, liveError, timers,
          currentUserTranscription, currentModelTranscription, modelFragments,
          pendingUpdates, isLoading, stream, messages, nCreated, nPushed,
          fullText, nChunks, spoken, flushed,
          buffer, bytesWritten, posted, captured,
          samples, blob, numChannels, audioBuffer, codecStep, uplink, chat, quiz>>

schedVars == <<audioQueue, isScheduling, nextStartTime, audioSource, device, passes,
               currentlyPlayingIndex>>
ttsVars == <<ttsPromiseQueue, ttsAwaited, isProcessingTts>>
liveVars == <<isLiveSessionActive, sessions, microphoneStream, liveSessionRef,
              inputAudioContext, audioWorkletNode, liveError, timers>>
transcriptVars == <<currentUserTranscription, currentModelTranscription,
                    modelFragments, pendingUpdates>>
chatVars == <<isLoading, stream>>
textVars == <<fullText, nChunks, spoken, flushed>>
captureVars == <<buffer, bytesWritten, posted, captured>>
codecVars == <<samples, blob, numChannels, audioBuffer, codecStep>>
kernelVars == <<chat, quiz>>
otherVars == <<uplink, kernelVars>>

----------------------------------------------------------------------------
\* Data

\* A payload is abstracted to what scheduleAudio observes of it: whether
\* decode/decodeAudioData succeed on it and the duration of the decoded buffer.
Payloads ==
    {[ok |-> FALSE, dur |-> 0]} \cup {[ok |-> TRUE, dur |-> d] : d \in 1..MaxDur}

\* Mutant of Segment: the entry is pushed without its message reference.
SegmentWithoutReference(id, job, p, idx) ==
    [id |-> id, job |-> job, ok |-> p.ok, dur |-> p.dur, messageIndex |-> Null]

\* An entry of audioQueueRef: { audioData, messageIndex }; id numbers the
\* entries in the order of their push, job is the TTS job it came from (0: live).
Segment(id, job, p, idx) ==
    [id |-> id, job |-> job, ok |-> p.ok, dur |-> p.dur, messageIndex |-> idx]

NoItem == [id |-> 0, job |-> 0, ok |-> FALSE, dur |-> 0, messageIndex |-> Null]

\* An entry of ttsPromiseQueueRef: { promise, messageIndex }; state is the
\* state of the promise: "pending", "audio" (a string) or "null".  History:
\* muted, the promise was pending at a moment output was toggled off.
Job(n, idx) ==
    [job |-> n, messageIndex |-> idx, state |-> "pending", ok |-> FALSE, dur |-> 0,
     muted |-> FALSE]

NoJob ==
    [job |-> 0, messageIndex |-> Null, state |-> "pending", ok |-> FALSE, dur |-> 0,
     muted |-> FALSE]

\* No call of streamChat has been made.
NoChat == [messages |-> <<>>, history |-> <<>>, created |-> FALSE]

\* QuizModal after construction: no location chosen, no questions.
NoQuiz == [selectedLocation |-> FALSE, loading |-> FALSE, questions |-> <<>>,
           currentIndex |-> 0, userAnswers |-> <<>>, showResult |-> FALSE]

NoStream == [on |-> FALSE, isAudioEnabled |-> FALSE, isLiveSessionActive |-> FALSE,
             messageIndex |-> Null]

\* The text of a message, as the tokens the handlers distinguish: Chat stands
\* for text of the text chat, Dots for the '...' that marks a live user entry
\* in progress, the others are transcription fragments of the live session.
Chat == "text"
Dots == "..."
Fragments == {"toi", Dots}

\* An entry of messages: { role, text }.
Entry(role, text) == [role |-> role, text |-> text]

messagesLength == Len(messages)

\* text.endsWith('...')
EndsWithDots(text) == Len(text) > 0 /\ text[Len(text)] = Dots

\* newMessages.slice().reverse().find(m => m.role === 'user'): its index, or 0.
LastUser(list) ==
    LET users == {k \in 1..Len(list) : list[k].role = "user"}
    IN  IF users = {} THEN 0 ELSE CHOOSE k \in users : \A n \in users : n <= k

\* An updater function handed to setMessages outside a click handler; signal is
\* history: the user buffer at the moment a turn-complete signal arrived.
Updater(kind, signal) == [kind |-> kind, signal |-> signal]

\* What an updater returns for the list prev when it is run with the buffers
\* user and model: it reads the refs when it runs, not when it was queued.
ApplyUpdate(prev, upd, user, model) ==
    LET last == Len(prev)
        k == LastUser(prev)
    IN  CASE upd.kind = "input" ->
                 IF prev[last].role = "user"
                 THEN [prev EXCEPT ![last].text = Append(user, Dots)] ELSE prev
          [] upd.kind = "append" -> Append(prev, Entry("model", <<>>))
          [] upd.kind = "apology" -> Append(prev, Entry("model", <<Chat>>))
          [] upd.kind = "output" ->
                 IF prev[last].role = "model"
                 THEN [prev EXCEPT ![last].text = model] ELSE prev
          [] OTHER ->
                 IF k # 0 /\ EndsWithDots(prev[k].text)
                 THEN [prev EXCEPT ![k].text = user] ELSE prev

\* A render: the queued updaters are run in the order they were queued.
RECURSIVE ApplyAll(_, _, _, _)
ApplyAll(prev, queue, user, model) ==
    IF queue = <<>> THEN prev
    ELSE ApplyAll(ApplyUpdate(prev, Head(queue), user, model), Tail(queue), user, model)

\* A startLiveSession invocation and what it has created: pc is its await
\* ("getUserMedia", "connect") or "returned"; stream is the MediaStream it
\* obtained ("none", "live", "stopped"); remote the session of ai.live.connect
\* ("none", "connecting", "open", "closing", "errored", "closed"); ctx the
\* input AudioContext its onopen created ("none", "open", "closed"); onopen
\* the position of its onopen callback ("none", "addModule", "done",
\* "failed"); node its AudioWorkletNode ("none", "connected", "closed").
\* stoppedAt is history: what the invocation was at when stopLiveSession was
\* called after it ("none": not called).
NewSession ==
    [pc |-> "getUserMedia", stream |-> "none", remote |-> "none", ctx |-> "none",
     onopen |-> "none", node |-> "none", stoppedAt |-> "none"]

\* What getUserMediaGranted, onopen and addModuleDone make of an invocation.
Granted(s) == [s EXCEPT !.pc = "connect", !.stream = "live", !.remote = "connecting"]
Opened(s) ==
    [s EXCEPT !.pc = "returned", !.remote = "open", !.ctx = "open",
              !.onopen = "addModule"]
Connected(s) == [s EXCEPT !.onopen = "done", !.node = "connected"]

\* A message of the live session: the transcription fragments ("none": the
\* part is absent), the audio of the first part, the turn-complete signal.
LiveMessage(input, output, hasAudio, audio, turnComplete) ==
    [input |-> input, output |-> output, hasAudio |-> hasAudio, audio |-> audio,
     turnComplete |-> turnComplete]

\* A scheduleAudio invocation suspended at an await: pc is the await ("resume",
\* "decode"), item the head it took (NoItem before the loop), after the id of
\* the segment whose failed decode made finally call scheduleAudio (0 for a
\* call from a handler).  muted is history: output was toggled off while this
\* invocation was suspended.
PassAt(pc, item, after) == [pc |-> pc, item |-> item, after |-> after, muted |-> FALSE]

RemoveAt(s, i) == SubSeq(s, 1, i - 1) \o SubSeq(s, i + 1, Len(s))

\* Mutant of MicrotaskPending: the continuations wait like tasks, and a
\* click may be handled before them.
ContinuationsAsTasks == FALSE

\* A continuation that the event loop runs before the next task.
MicrotaskPending ==
    \/ \E i \in 1..Len(passes) : passes[i].pc = "decode"
    \/ ttsAwaited.job # 0 /\ ttsAwaited.state # "pending"

----------------------------------------------------------------------------
\* scheduleAudio

\* Mutant of WhileLoop: the pass takes the entry pushed last, not the head.
WhileLoopTakesLast(q, p, others) ==
    IF Len(q) > 0
    THEN [isScheduling |-> TRUE,
          passes |-> Append(others, [p EXCEPT !.pc = "decode", !.item = q[Len(q)]])]
    ELSE [isScheduling |-> FALSE, passes |-> others]

\* Mutant of WhileLoop: leaving the loop does not clear the in-flight flag.
WhileLoopKeepsFlag(q, p, others) ==
    IF Len(q) > 0
    THEN [isScheduling |-> TRUE,
          passes |-> Append(others, [p EXCEPT !.pc = "decode", !.item = Head(q)])]
    ELSE [isScheduling |-> TRUE, passes |-> others]

\* The loop test `while (audioQueueRef.current.length > 0)` and the first
\* statements of the body: the pass p takes the head and awaits its decode,
\* or leaves the loop; others are the other passes in flight.
WhileLoop(q, p, others) ==
    IF Len(q) > 0
    THEN [isScheduling |-> TRUE,
          passes |-> Append(others, [p EXCEPT !.pc = "decode", !.item = Head(q)])]
    ELSE [isScheduling |-> FALSE, passes |-> others]

\* Mutant of scheduleAudio: the in-flight flag is not tested.
scheduleAudioUnguarded(flag, ctx, q, ps, after) ==
    IF ctx = "none" THEN [isScheduling |-> FALSE, passes |-> ps]
    ELSE IF ctx = "suspended"
         THEN [isScheduling |-> TRUE,
               passes |-> Append(ps, PassAt("resume", NoItem, after))]
         ELSE WhileLoop(q, PassAt("decode", NoItem, after), ps)

\* A call of scheduleAudio up to its first await, from the values of the
\* flag, the device, the queue and the passes in flight at the call.
scheduleAudio(flag, ctx, q, ps, after) ==
    IF flag THEN [isScheduling |-> flag, passes |-> ps]
    ELSE IF ctx = "none" THEN [isScheduling |-> FALSE, passes |-> ps]
    ELSE IF ctx = "suspended"
         THEN [isScheduling |-> TRUE,
               passes |-> Append(ps, PassAt("resume", NoItem, after))]
         ELSE WhileLoop(q, PassAt("decode", NoItem, after), ps)

\* The finally block after a failed decode of the segment failed: the flag is
\* cleared and scheduleAudio called again if the queue is not empty.
Finally(ctx, q, failed, others) ==
    IF Len(q) > 0 THEN scheduleAudio(FALSE, ctx, q, others, failed)
    ELSE [isScheduling |-> FALSE, passes |-> others]

\* Mutant of StartTime: a cursor that has fallen behind is used as it is.
StartTimeWithoutLeadIn(cursor, currentTime) == cursor

\* Mutant of StartTime: the cursor is not consulted.
StartTimeIgnoresCursor(cursor, currentTime) == currentTime + LeadIn

\* The start time computed for a segment from the cursor and the device time.
StartTime(cursor, currentTime) ==
    IF cursor < currentTime THEN currentTime + LeadIn ELSE cursor

\* The source created for item and started at start.
Source(item, start) ==
    [id |-> item.id, job |-> item.job, start |-> start, dur |-> item.dur,
     stopped |-> FALSE, ended |-> FALSE]

\* `await audioContext.resume()` completes: the pass enters the loop.
ResumeDone(i) ==
    /\ ~MicrotaskPending
    /\ passes[i].pc = "resume"
    /\ outputAudioContext' = "running"
    /\ LET r == WhileLoop(audioQueue, passes[i], RemoveAt(passes, i))
       IN  /\ isScheduling' = r.isScheduling
           /\ passes' = r.passes
    /\ UNCHANGED <<now, otherVars, codecVars, captureVars, textVars, audioQueue, nextStartTime, audioSource,
                   device, currentlyPlayingIndex, ttsVars, isAudioEnabled,
                   liveVars, chatVars, messages, transcriptVars, nCreated, nPushed>>

\* `await audioContext.resume()` rejects: the await is outside the try, so
\* the pass ends with the exception and finally does not run.
ResumeRejected(i) ==
    /\ ~MicrotaskPending
    /\ passes[i].pc = "resume"
    /\ passes' = RemoveAt(passes, i)
    /\ UNCHANGED <<now, otherVars, codecVars, captureVars, textVars, outputAudioContext, audioQueue, isScheduling, nextStartTime,
                   audioSource, device, currentlyPlayingIndex,
                   ttsVars, isAudioEnabled, liveVars, chatVars, messages, transcriptVars,
                   nCreated, nPushed>>

\* The decode of the head succeeded: shift, set the marker, compute the start
\* time, start the source, advance the cursor, and go round the loop.
DecodeDone(i) ==
    /\ passes[i].pc = "decode"
    /\ passes[i].item.ok
    /\ LET item == passes[i].item
           q == IF Len(audioQueue) > 0 THEN Tail(audioQueue) ELSE audioQueue
           start == StartTime(nextStartTime, now)
           r == WhileLoop(q, passes[i], RemoveAt(passes, i))
       IN  /\ audioQueue' = q
           /\ currentlyPlayingIndex' =
                  IF item.messageIndex # Null THEN item.messageIndex
                  ELSE currentlyPlayingIndex
           /\ device' = Append(device, Source(item, start))
           /\ nextStartTime' = start + item.dur
           /\ audioSource' = item.id
           /\ isScheduling' = r.isScheduling
           /\ passes' = r.passes
    /\ UNCHANGED <<now, otherVars, codecVars, captureVars, textVars, outputAudioContext, ttsVars, isAudioEnabled, liveVars,
                   chatVars, messages, transcriptVars, nCreated, nPushed>>

\* The decode of the head threw: catch logs it and finally runs.  The call in
\* finally runs to the same decode; when the failure is thrown synchronously
\* (atob on a malformed string) the calls nest until the stack is exhausted
\* and the last finally leaves the flag clear with no pass in flight.
DecodeFailed(i, exhausted) ==
    /\ passes[i].pc = "decode"
    /\ ~passes[i].item.ok
    /\ LET others == RemoveAt(passes, i)
           r == IF exhausted THEN [isScheduling |-> FALSE, passes |-> others]
                ELSE Finally(outputAudioContext, audioQueue, passes[i].item.id, others)
       IN  /\ isScheduling' = r.isScheduling
           /\ passes' = r.passes
    /\ UNCHANGED <<now, otherVars, codecVars, captureVars, textVars, outputAudioContext, audioQueue, nextStartTime, audioSource,
                   device, currentlyPlayingIndex, ttsVars,
                   isAudioEnabled, liveVars, chatVars, messages, transcriptVars, nCreated,
                   nPushed>>

\* Mutant of OnEnded: the marker is cleared without the test of the cursor.
OnEndedIgnoresCursor(k) ==
    /\ ~MicrotaskPending
    /\ ~device[k].ended
    /\ device[k].stopped \/ now >= device[k].start + device[k].dur
    /\ device' = [device EXCEPT ![k].ended = TRUE]
    /\ LET d == nextStartTime - now
           near == (IF d < 0 THEN -d ELSE d) < Tolerance
       IN  IF Len(audioQueue) = 0
           THEN currentlyPlayingIndex' = Null
           ELSE UNCHANGED currentlyPlayingIndex
    /\ UNCHANGED <<now, otherVars, codecVars, captureVars, textVars, outputAudioContext, audioQueue, isScheduling, nextStartTime,
                   audioSource, passes, ttsVars, isAudioEnabled, liveVars, chatVars,
                   messages, transcriptVars, nCreated, nPushed>>

\* source.onended of device[k]: the source has played to its end or was stopped.
OnEnded(k) ==
    /\ ~MicrotaskPending
    /\ ~device[k].ended
    /\ device[k].stopped \/ now >= device[k].start + device[k].dur
    /\ device' = [device EXCEPT ![k].ended = TRUE]
    /\ LET d == nextStartTime - now
           near == (IF d < 0 THEN -d ELSE d) < Tolerance
       IN  IF Len(audioQueue) = 0 /\ near
           THEN currentlyPlayingIndex' = Null
           ELSE UNCHANGED currentlyPlayingIndex
    /\ UNCHANGED <<now, otherVars, codecVars, captureVars, textVars, outputAudioContext, audioQueue, isScheduling, nextStartTime,
                   audioSource, passes, ttsVars, isAudioEnabled, liveVars, chatVars,
                   messages, transcriptVars, nCreated, nPushed>>

\* The device clock advances, as far as the tick last.
Advance(last) ==
    /\ now < last
    /\ now' = now + 1
    /\ UNCHANGED <<textVars, captureVars, codecVars, otherVars, outputAudioContext, schedVars, ttsVars, isAudioEnabled, liveVars,
                   chatVars, messages, transcriptVars, nCreated, nPushed>>

Tick == Advance(MaxTime)

----------------------------------------------------------------------------
\* toggleAudio

\* audioSourceRef.current.stop(): the source most recently started is stopped.
\* On a source that has played to its end stop() changes nothing.
StopSource(dev, src, t) ==
    IF \E k \in 1..Len(dev) : dev[k].id = src /\ t < dev[k].start + dev[k].dur
    THEN LET k == CHOOSE n \in 1..Len(dev) : dev[n].id = src
         IN  [dev EXCEPT ![k].stopped = TRUE]
    ELSE dev

\* History: the passes suspended at this moment have seen output go off.
Muted(ps) ==
    IF Len(ps) = 0 THEN ps ELSE [i \in 1..Len(ps) |-> [ps[i] EXCEPT !.muted = TRUE]]

\* History: the job, if its promise is pending at this moment, has seen
\* output go off.
MutedJob(j) ==
    IF j.job # 0 /\ j.state = "pending" THEN [j EXCEPT !.muted = TRUE] ELSE j

toggleAudio ==
    /\ ~MicrotaskPending
    /\ isAudioEnabled' = ~isAudioEnabled
    /\ IF isAudioEnabled
       THEN /\ device' = StopSource(device, audioSource, now)
            /\ audioQueue' = <<>>
            /\ currentlyPlayingIndex' = Null
            /\ passes' = Muted(passes)
            /\ ttsAwaited' = MutedJob(ttsAwaited)
            /\ ttsPromiseQueue' =
                   [k \in 1..Len(ttsPromiseQueue) |-> MutedJob(ttsPromiseQueue[k])]
       ELSE UNCHANGED <<device, audioQueue, currentlyPlayingIndex, passes,
                        ttsAwaited, ttsPromiseQueue>>
    /\ UNCHANGED <<now, otherVars, codecVars, captureVars, textVars, outputAudioContext, isScheduling, nextStartTime, audioSource,
                   isProcessingTts, liveVars, chatVars, messages, transcriptVars,
                   nCreated, nPushed>>

----------------------------------------------------------------------------
\* The live session

\* Mutant of StartCatch: the catch block leaves the session reported active.
StartCatchStaysActive(ts) ==
    [isLiveSessionActive |-> TRUE, liveError |-> "start",
     timers |-> Append(ts, DismissSeconds)]

\* The catch block of startLiveSession: the session is reported inactive, the
\* message is shown and its dismissal armed; ts are the timers armed so far.
StartCatch(ts) ==
    [isLiveSessionActive |-> FALSE, liveError |-> "start",
     timers |-> Append(ts, DismissSeconds)]

\* Mutant of ErrorCallback: the dismissal is not armed.
ErrorCallbackNotDismissed(ts) ==
    [isLiveSessionActive |-> FALSE, liveError |-> "server", timers |-> ts]

\* The body of the onerror callback.
ErrorCallback(ts) ==
    [isLiveSessionActive |-> FALSE, liveError |-> "server",
     timers |-> Append(ts, DismissSeconds)]

\* startLiveSession to its first await, getUserMedia.  The microphone button
\* is rendered only while no live session is reported active.
startLiveSession ==
    /\ ~MicrotaskPending
    /\ pendingUpdates = <<>>
    /\ ~isLiveSessionActive
    /\ Len(sessions) < MaxSessions
    /\ messagesLength < MaxMsgs
    /\ isLiveSessionActive' = TRUE
    /\ liveError' = "none"
    /\ messages' = Append(messages, Entry("user", <<Dots>>))
    /\ sessions' = Append(sessions, NewSession)
    /\ UNCHANGED <<now, otherVars, codecVars, captureVars, textVars, outputAudioContext, schedVars, ttsVars, isAudioEnabled,
                   microphoneStream, liveSessionRef, inputAudioContext,
                   audioWorkletNode, timers, transcriptVars, chatVars, nCreated,
                   nPushed>>

\* A start that runs through with no other event in between: startLiveSession,
\* getUserMediaGranted, onopen and addModuleDone of the new invocation in
\* sequence.
startLiveSessionThrough ==
    /\ ~MicrotaskPending
    /\ pendingUpdates = <<>>
    /\ ~isLiveSessionActive
    /\ Len(sessions) < MaxSessions
    /\ messagesLength < MaxMsgs
    /\ isLiveSessionActive' = TRUE
    /\ liveError' = "none"
    /\ messages' = Append(messages, Entry("user", <<Dots>>))
    /\ sessions' = Append(sessions, Connected(Opened(Granted(NewSession))))
    /\ microphoneStream' = Len(sessions) + 1
    /\ liveSessionRef' = Len(sessions) + 1
    /\ inputAudioContext' = Len(sessions) + 1
    /\ audioWorkletNode' = Len(sessions) + 1
    /\ UNCHANGED <<now, otherVars, codecVars, captureVars, textVars, outputAudioContext, schedVars, ttsVars, isAudioEnabled,
                   timers, transcriptVars, chatVars, nCreated, nPushed>>

\* getUserMedia resolves: the stream is kept and ai.live.connect is called.
getUserMediaGranted(i) ==
    /\ ~MicrotaskPending
    /\ sessions[i].pc = "getUserMedia"
    /\ sessions' = [sessions EXCEPT ![i] = Granted(@)]
    /\ microphoneStream' = i
    /\ UNCHANGED <<now, otherVars, codecVars, captureVars, textVars, outputAudioContext, schedVars, ttsVars, isAudioEnabled,
                   isLiveSessionActive, liveSessionRef, inputAudioContext,
                   audioWorkletNode, liveError, timers, transcriptVars, chatVars,
                   messages, nCreated, nPushed>>

\* getUserMedia rejects (the microphone is denied): the catch block runs.
getUserMediaDenied(i) ==
    /\ ~MicrotaskPending
    /\ sessions[i].pc = "getUserMedia"
    /\ sessions' = [sessions EXCEPT ![i].pc = "returned"]
    /\ LET r == StartCatch(timers)
       IN  /\ isLiveSessionActive' = r.isLiveSessionActive
           /\ liveError' = r.liveError
           /\ timers' = r.timers
    /\ UNCHANGED <<now, otherVars, codecVars, captureVars, textVars, outputAudioContext, schedVars, ttsVars, isAudioEnabled,
                   microphoneStream, liveSessionRef, inputAudioContext,
                   audioWorkletNode, transcriptVars, chatVars, messages, nCreated,
                   nPushed>>

\* The promise of ai.live.connect rejects: the catch block runs; the stream
\* obtained before stays as it is.
connectRejected(i) ==
    /\ ~MicrotaskPending
    /\ sessions[i].pc = "connect"
    /\ sessions[i].remote = "connecting"
    /\ sessions' = [sessions EXCEPT ![i].pc = "returned", ![i].remote = "closed"]
    /\ LET r == StartCatch(timers)
       IN  /\ isLiveSessionActive' = r.isLiveSessionActive
           /\ liveError' = r.liveError
           /\ timers' = r.timers
    /\ UNCHANGED <<now, otherVars, codecVars, captureVars, textVars, outputAudioContext, schedVars, ttsVars, isAudioEnabled,
                   microphoneStream, liveSessionRef, inputAudioContext,
                   audioWorkletNode, transcriptVars, chatVars, messages, nCreated,
                   nPushed>>

\* The handshake succeeds: onopen creates the input context and awaits
\* addModule, the promise of connect resolves and the session is kept.
onopen(i) ==
    /\ sessions[i].pc = "connect"
    /\ sessions[i].remote = "connecting"
    /\ sessions' = [sessions EXCEPT ![i] = Opened(@)]
    /\ inputAudioContext' = i
    /\ liveSessionRef' = i
    /\ UNCHANGED <<now, otherVars, codecVars, captureVars, textVars, outputAudioContext, schedVars, ttsVars, isAudioEnabled,
                   isLiveSessionActive, microphoneStream, audioWorkletNode,
                   liveError, timers, transcriptVars, chatVars, messages, nCreated,
                   nPushed>>

\* addModule resolves and onopen goes on with inputAudioContextRef.current as
\* it is now: null (a TypeError) or a context in which the processor is not
\* registered end in its catch block, which shows a message.
addModuleDone(i) ==
    /\ ~MicrotaskPending
    /\ sessions[i].onopen = "addModule"
    /\ IF /\ inputAudioContext # 0
          /\ inputAudioContext = i \/ sessions[inputAudioContext].onopen = "done"
       THEN /\ sessions' = [sessions EXCEPT ![i] = Connected(@)]
            /\ audioWorkletNode' = i
            /\ UNCHANGED liveError
       ELSE /\ sessions' = [sessions EXCEPT ![i].onopen = "failed"]
            /\ liveError' = "init"
            /\ UNCHANGED audioWorkletNode
    /\ UNCHANGED <<now, otherVars, codecVars, captureVars, textVars, outputAudioContext, schedVars, ttsVars, isAudioEnabled,
                   isLiveSessionActive, microphoneStream, liveSessionRef,
                   inputAudioContext, timers, transcriptVars, chatVars, messages,
                   nCreated, nPushed>>

\* addModule rejects: the catch block of onopen shows a message.
addModuleFailed(i) ==
    /\ ~MicrotaskPending
    /\ sessions[i].onopen = "addModule"
    /\ sessions' = [sessions EXCEPT ![i].onopen = "failed"]
    /\ liveError' = "init"
    /\ UNCHANGED <<now, otherVars, codecVars, captureVars, textVars, outputAudioContext, schedVars, ttsVars, isAudioEnabled,
                   isLiveSessionActive, microphoneStream, liveSessionRef,
                   inputAudioContext, audioWorkletNode, timers, transcriptVars,
                   chatVars, messages, nCreated, nPushed>>

\* The onclose callback: the remote end closed the session, or the close that
\* stopLiveSession started, or that followed an error, has completed.
onclose(i) ==
    /\ sessions[i].remote \in {"open", "closing", "errored"}
    /\ sessions' = [sessions EXCEPT ![i].remote = "closed"]
    /\ isLiveSessionActive' = FALSE
    /\ UNCHANGED <<now, otherVars, codecVars, captureVars, textVars, outputAudioContext, schedVars, ttsVars, isAudioEnabled,
                   microphoneStream, liveSessionRef, inputAudioContext,
                   audioWorkletNode, liveError, timers, transcriptVars, chatVars,
                   messages, nCreated, nPushed>>

\* The onerror callback: the transport failed, during the handshake or later.
onerror(i) ==
    /\ sessions[i].remote \in {"connecting", "open"}
    /\ sessions' = [sessions EXCEPT ![i].remote = "errored"]
    /\ LET r == ErrorCallback(timers)
       IN  /\ isLiveSessionActive' = r.isLiveSessionActive
           /\ liveError' = r.liveError
           /\ timers' = r.timers
    /\ UNCHANGED <<now, otherVars, codecVars, captureVars, textVars, outputAudioContext, schedVars, ttsVars, isAudioEnabled,
                   microphoneStream, liveSessionRef, inputAudioContext,
                   audioWorkletNode, transcriptVars, chatVars, messages, nCreated,
                   nPushed>>

\* What an invocation is at when stopLiveSession is called.
Phase(s) ==
    IF s.pc = "getUserMedia" THEN "getUserMedia"
    ELSE IF s.remote = "none" THEN "denied" ELSE s.remote

\* History: stopLiveSession has been called after these invocations.
Stopped(ss) ==
    [k \in 1..Len(ss) |->
        IF ss[k].stoppedAt = "none" THEN [ss[k] EXCEPT !.stoppedAt = Phase(ss[k])]
        ELSE ss[k]]

\* The four release steps of stopLiveSession, in their order, on what the
\* four refs hold.
Released(ss, session, mic, node, ctx) ==
    LET s1 == IF session = 0 THEN ss
              ELSE [ss EXCEPT ![session].remote = IF @ = "open" THEN "closing" ELSE @]
        s2 == IF mic = 0 THEN s1 ELSE [s1 EXCEPT ![mic].stream = "stopped"]
        s3 == IF node = 0 THEN s2 ELSE [s2 EXCEPT ![node].node = "closed"]
    IN  IF ctx = 0 THEN s3 ELSE [s3 EXCEPT ![ctx].ctx = "closed"]

\* stopLiveSession; thrown: the close() of the remote session throws, and
\* nothing after it in the function runs.  The END button is rendered only
\* while a live session is reported active.
stopLiveSession(thrown) ==
    /\ ~MicrotaskPending
    /\ isLiveSessionActive
    /\ thrown => liveSessionRef # 0
    /\ IF thrown
       THEN /\ sessions' = Stopped(sessions)
            /\ UNCHANGED <<isLiveSessionActive, microphoneStream, liveSessionRef,
                           inputAudioContext, audioWorkletNode>>
       ELSE /\ sessions' = Released(Stopped(sessions), liveSessionRef,
                                    microphoneStream, audioWorkletNode,
                                    inputAudioContext)
            /\ liveSessionRef' = 0
            /\ microphoneStream' = 0
            /\ audioWorkletNode' = 0
            /\ inputAudioContext' = 0
            /\ isLiveSessionActive' = FALSE
    /\ UNCHANGED <<now, otherVars, codecVars, captureVars, textVars, outputAudioContext, schedVars, ttsVars, isAudioEnabled,
                   liveError, timers, transcriptVars, chatVars, messages, nCreated,
                   nPushed>>

\* The updaters that handleLiveMessage hands to setMessages for the message m,
\* in the order of its calls; user is the user buffer after its own addition.
Updaters(m, user, model) ==
    (IF m.input # "none" THEN <<Updater("input", <<>>)>> ELSE <<>>)
    \o (IF m.output # "none" /\ model = <<>> THEN <<Updater("append", <<>>)>> ELSE <<>>)
    \o (IF m.output # "none" THEN <<Updater("output", <<>>)>> ELSE <<>>)
    \o (IF m.turnComplete THEN <<Updater("turnComplete", user)>> ELSE <<>>)

\* handleLiveMessage for the message m of the session i: the transcription
\* fragments are added to the buffers and their updaters queued, the audio is
\* pushed with no message reference and scheduleAudio called, and on turn
\* complete the updater is queued and both buffers are reset.  eager: the list
\* has no update pending and React runs the first updater inside setMessages;
\* every other updater runs at the next render.
handleLiveMessage(i, m, eager) ==
    /\ sessions[i].remote = "open"
    /\ m.input # "none" => Len(currentUserTranscription) < MaxFragments
    /\ m.output # "none" => modelFragments < MaxFragments
    /\ m.hasAudio => nCreated < MaxItems
    /\ LET user == IF m.input # "none" THEN Append(currentUserTranscription, m.input)
                   ELSE currentUserTranscription
           model == IF m.output \notin {"none", ""}
                    THEN Append(currentModelTranscription, m.output)
                    ELSE currentModelTranscription
           ups == Updaters(m, user, currentModelTranscription)
           now1 == eager /\ pendingUpdates = <<>> /\ ups # <<>>
           appends == Cardinality({k \in 1..Len(pendingUpdates) :
                                       pendingUpdates[k].kind = "append"})
       IN  /\ eager => ups # <<>> /\ pendingUpdates = <<>>
           /\ Len(pendingUpdates) + Len(ups) <= MaxPending
           /\ (m.output # "none") => messagesLength + appends < MaxMsgs
           /\ messages' = IF now1 THEN ApplyUpdate(messages, Head(ups), user, model)
                          ELSE messages
           /\ pendingUpdates' = IF now1 THEN Tail(ups) ELSE pendingUpdates \o ups
           /\ currentUserTranscription' = IF m.turnComplete THEN <<>> ELSE user
           /\ currentModelTranscription' = IF m.turnComplete THEN <<>> ELSE model
           /\ modelFragments' = IF m.turnComplete THEN 0
                                ELSE IF m.output # "none" THEN modelFragments + 1
                                ELSE modelFragments
    /\ IF m.hasAudio
       THEN /\ nCreated' = nCreated + 1
            /\ nPushed' = nPushed + 1
            /\ LET q == Append(audioQueue, Segment(nPushed + 1, 0, m.audio, Null))
                   r == scheduleAudio(isScheduling, outputAudioContext, q, passes, 0)
               IN  /\ audioQueue' = q
                   /\ isScheduling' = r.isScheduling
                   /\ passes' = r.passes
       ELSE UNCHANGED <<nCreated, nPushed, audioQueue, isScheduling, passes>>
    /\ UNCHANGED <<now, otherVars, codecVars, captureVars, textVars, outputAudioContext, nextStartTime, audioSource, device,
                   currentlyPlayingIndex, ttsVars, isAudioEnabled, liveVars,
                   chatVars>>

\* React renders: the queued updaters are run against the buffers as they
\* are now.
Render ==
    /\ ~MicrotaskPending
    /\ pendingUpdates # <<>>
    /\ messages' = ApplyAll(messages, pendingUpdates, currentUserTranscription,
                            currentModelTranscription)
    /\ pendingUpdates' = <<>>
    /\ UNCHANGED <<now, otherVars, codecVars, captureVars, textVars, outputAudioContext, schedVars, ttsVars, isAudioEnabled,
                   liveVars, currentUserTranscription, currentModelTranscription,
                   modelFragments,
                   chatVars, nCreated, nPushed>>

\* A second of wall-clock time passes; a timer that is due fires first.
Second ==
    /\ timers # <<>>
    /\ \A k \in 1..Len(timers) : timers[k] > 0
    /\ timers' = [k \in 1..Len(timers) |-> timers[k] - 1]
    /\ UNCHANGED <<now, otherVars, codecVars, captureVars, textVars, outputAudioContext, schedVars, ttsVars, isAudioEnabled,
                   isLiveSessionActive, sessions, microphoneStream, liveSessionRef,
                   inputAudioContext, audioWorkletNode, liveError, transcriptVars,
                   chatVars, messages, nCreated, nPushed>>

\* The callback of setTimeout(() => setLiveError(null), 5000).
TimerFires ==
    /\ ~MicrotaskPending
    /\ timers # <<>>
    /\ timers[1] = 0
    /\ timers' = Tail(timers)
    /\ liveError' = "none"
    /\ UNCHANGED <<now, otherVars, codecVars, captureVars, textVars, outputAudioContext, schedVars, ttsVars, isAudioEnabled,
                   isLiveSessionActive, sessions, microphoneStream, liveSessionRef,
                   inputAudioContext, audioWorkletNode, transcriptVars, chatVars,
                   messages, nCreated, nPushed>>

----------------------------------------------------------------------------
\* The TTS queue

\* Mutant of processNextTts: a job whose promise has settled is taken first.
processNextTtsSettledFirst(q) ==
    IF Len(q) = 0
    THEN [isProcessingTts |-> FALSE, ttsAwaited |-> NoJob, ttsPromiseQueue |-> q]
    ELSE LET settled == {k \in 1..Len(q) : q[k].state # "pending"}
             k == IF settled = {} THEN 1
                  ELSE CHOOSE m \in settled : \A n \in settled : m <= n
         IN  [isProcessingTts |-> TRUE, ttsAwaited |-> q[k],
              ttsPromiseQueue |-> RemoveAt(q, k)]

\* processNextTts up to its await: the head job is taken, or the loop ends.
processNextTts(q) ==
    IF Len(q) = 0
    THEN [isProcessingTts |-> FALSE, ttsAwaited |-> NoJob, ttsPromiseQueue |-> q]
    ELSE [isProcessingTts |-> TRUE, ttsAwaited |-> Head(q), ttsPromiseQueue |-> Tail(q)]

\* Mutant of processTtsQueue: processNextTts is called without the test of
\* the flag.
processTtsQueueUnguarded(idx) ==
    LET q == Append(ttsPromiseQueue, Job(nCreated + 1, idx))
        r == processNextTts(q)
    IN  /\ nCreated' = nCreated + 1
        /\ ttsPromiseQueue' = r.ttsPromiseQueue
        /\ ttsAwaited' = r.ttsAwaited
        /\ isProcessingTts' = r.isProcessingTts

\* processTtsQueue(text, messageIndex) for a text that is not blank.
processTtsQueue(idx) ==
    LET q == Append(ttsPromiseQueue, Job(nCreated + 1, idx))
        r == IF ~isProcessingTts THEN processNextTts(q)
             ELSE [isProcessingTts |-> isProcessingTts, ttsAwaited |-> ttsAwaited,
                   ttsPromiseQueue |-> q]
    IN  /\ nCreated' = nCreated + 1
        /\ ttsPromiseQueue' = r.ttsPromiseQueue
        /\ ttsAwaited' = r.ttsAwaited
        /\ isProcessingTts' = r.isProcessingTts

\* The promise of textToSpeech settles: with audio (payload p) or with null
\* (no audio in the response, or the request failed and was caught).
Settled(j, audio, p) ==
    [j EXCEPT !.state = IF audio THEN "audio" ELSE "null",
              !.ok = audio /\ p.ok, !.dur = IF audio THEN p.dur ELSE 0]

textToSpeechSettles(n, audio, p) ==
    /\ \/ /\ ttsAwaited.job = n
          /\ ttsAwaited.state = "pending"
          /\ ttsAwaited' = Settled(ttsAwaited, audio, p)
          /\ UNCHANGED ttsPromiseQueue
       \/ \E k \in 1..Len(ttsPromiseQueue) :
             /\ ttsPromiseQueue[k].job = n
             /\ ttsPromiseQueue[k].state = "pending"
             /\ ttsPromiseQueue' =
                    [ttsPromiseQueue EXCEPT ![k] = Settled(ttsPromiseQueue[k], audio, p)]
             /\ UNCHANGED ttsAwaited
    /\ UNCHANGED <<now, otherVars, codecVars, captureVars, textVars, outputAudioContext, schedVars, isProcessingTts,
                   isAudioEnabled, liveVars, chatVars, messages, transcriptVars, nCreated,
                   nPushed>>

\* Mutant of HasAudio: the result is pushed without the test.
HasAudioUntested(j) == TRUE

\* `if (audioData)`: the awaited promise gave a string.
HasAudio(j) == j.state = "audio"

\* The continuation of `await promise` in processNextTts: the audio, if any,
\* is pushed and scheduleAudio called; then processNextTts is called again.
TtsContinue ==
    /\ ttsAwaited.job # 0
    /\ ttsAwaited.state # "pending"
    /\ IF HasAudio(ttsAwaited)
       THEN LET q == Append(audioQueue,
                            Segment(nPushed + 1, ttsAwaited.job,
                                    [ok |-> ttsAwaited.ok, dur |-> ttsAwaited.dur],
                                    ttsAwaited.messageIndex))
                r == scheduleAudio(isScheduling, outputAudioContext, q, passes, 0)
            IN  /\ audioQueue' = q
                /\ nPushed' = nPushed + 1
                /\ isScheduling' = r.isScheduling
                /\ passes' = r.passes
       ELSE UNCHANGED <<audioQueue, nPushed, isScheduling, passes>>
    /\ LET r == processNextTts(ttsPromiseQueue)
       IN  /\ ttsPromiseQueue' = r.ttsPromiseQueue
           /\ ttsAwaited' = r.ttsAwaited
           /\ isProcessingTts' = r.isProcessingTts
    /\ UNCHANGED <<now, otherVars, codecVars, captureVars, textVars, outputAudioContext, nextStartTime, audioSource, device, currentlyPlayingIndex, isAudioEnabled,
                   liveVars, chatVars, messages, transcriptVars, nCreated>>

----------------------------------------------------------------------------
\* handleSendMessage

\* A chunk of the reply, as far as the TTS path reads it: "short" is below the
\* flush threshold, "flush" crosses it with text, "blank" crosses it (more
\* than 10 characters) with white space only.
ChunkKinds == {"short", "flush", "blank"}

\* Mutant of Sending: a send is taken while the reply of another streams.
NotSending == FALSE

\* `|| isLoading` of the first test of handleSendMessage
Sending == isLoading

\* handleSendMessage to its first await: the user entry and the placeholder
\* are appended and the stream opened; the closure keeps the isAudioEnabled,
\* isLiveSessionActive and messages of the render it was created in.  The
\* input field and the send button are rendered only while no live session
\* is active.  limit: the longest list the send may make.
sendMessage(limit) ==
    /\ ~MicrotaskPending
    /\ pendingUpdates = <<>>
    /\ ~isLiveSessionActive
    /\ ~Sending
    /\ messagesLength + 2 <= limit
    /\ isLoading' = TRUE
    /\ stream' = [on |-> TRUE, isAudioEnabled |-> isAudioEnabled,
                  isLiveSessionActive |-> isLiveSessionActive,
                  messageIndex |-> messagesLength]
    /\ messages' = messages \o <<Entry("user", <<Chat>>), Entry("model", <<>>)>>
    /\ fullText' = <<>>
    /\ nChunks' = 0
    /\ flushed' = 0
    /\ UNCHANGED <<now, otherVars, codecVars, captureVars, spoken, outputAudioContext, schedVars, ttsVars, isAudioEnabled,
                   liveVars, transcriptVars, nCreated, nPushed>>

handleSendMessage == sendMessage(MaxMsgs)

\* One chunk of the stream arrives.
StreamChunk(kind) ==
    /\ stream.on
    /\ IF /\ stream.isAudioEnabled /\ ~stream.isLiveSessionActive
          /\ kind = "flush"
          /\ nCreated < MaxItems
       THEN processTtsQueue(stream.messageIndex)
       ELSE UNCHANGED <<ttsVars, nCreated>>
    /\ UNCHANGED <<now, otherVars, codecVars, captureVars, textVars, outputAudioContext, schedVars, isAudioEnabled, liveVars,
                   chatVars, messages, transcriptVars, nPushed>>

\* The chunks of a reply, as the characters of chunk.text (the diacritics of
\* the Vietnamese words are left out: they change no length): three short
\* words, one of them with an exclamation mark, a phrase of 11 characters,
\* 11 spaces, and the empty text.
Xin == <<"X", "i", "n">>
Chao == <<"c", "h", "a", "o", "!">>
Ban == <<"b", "a", "n">>
Phrase == <<"x", "i", "n", " ", "c", "h", "a", "o", " ", "e", "m">>
Spaces == [k \in 1..11 |-> " "]
Chunks == {Xin, Chao, Ban, Phrase, Spaces, <<>>}

\* chunk.text.length > 10 || chunk.text.match(/[.!?]/)
Flush(text) ==
    Len(text) > 10 \/ \E k \in 1..Len(text) : text[k] \in {".", "!", "?"}

\* !text.trim()
Blank(text) == \A k \in 1..Len(text) : text[k] = " "

\* One chunk of the stream arrives, with its text: the text is added to
\* fullText and shown in the model entry, and if output is on in the closure
\* and the chunk passes the threshold, processTtsQueue is called with the
\* text of the chunk and the length of the closure's message list.
StreamText(chunk) ==
    /\ stream.on
    /\ pendingUpdates = <<>>
    /\ nChunks < MaxChunks
    /\ nChunks' = nChunks + 1
    /\ LET speaks == /\ chunk # <<>>
                      /\ stream.isAudioEnabled /\ ~stream.isLiveSessionActive
                      /\ Flush(chunk)
                      /\ ~Blank(chunk)
           text == IF chunk # <<>> THEN fullText \o chunk ELSE fullText
       IN  /\ speaks => nCreated < MaxItems
           /\ fullText' = text
           /\ messages' = IF chunk # <<>> /\ messages[messagesLength].role = "model"
                          THEN [messages EXCEPT ![messagesLength].text = text]
                          ELSE messages
           /\ IF speaks
              THEN /\ processTtsQueue(stream.messageIndex)
                   /\ spoken' = Append(spoken, chunk)
                   /\ flushed' = Len(text)
              ELSE UNCHANGED <<ttsVars, nCreated, spoken, flushed>>
    /\ UNCHANGED <<now, otherVars, codecVars, captureVars, outputAudioContext, schedVars, isAudioEnabled, liveVars,
                   chatVars, transcriptVars, nPushed>>

\* The stream ends; failed: it threw, and the updater that appends the apology
\* entry is handed to setMessages.
StreamEnd(failed) ==
    /\ stream.on
    /\ failed => messagesLength + Len(pendingUpdates) < MaxMsgs
    /\ stream' = NoStream
    /\ isLoading' = FALSE
    /\ IF failed /\ pendingUpdates = <<>>
       THEN /\ messages' = ApplyUpdate(messages, Updater("apology", <<>>), <<>>, <<>>)
            /\ UNCHANGED pendingUpdates
       ELSE /\ pendingUpdates' = IF failed
                                 THEN Append(pendingUpdates, Updater("apology", <<>>))
                                 ELSE pendingUpdates
            /\ UNCHANGED messages
    /\ UNCHANGED <<now, otherVars, codecVars, captureVars, textVars, outputAudioContext, schedVars, ttsVars, isAudioEnabled,
                   liveVars, currentUserTranscription, currentModelTranscription,
                   modelFragments,
                   nCreated, nPushed>>

----------------------------------------------------------------------------
\* PcmProcessor

\* The values of a sample, as far as the processor is concerned: it copies
\* them.
SampleValues == {1, 2}

\* The inputs[0] given to process: the list of the channels of the input,
\* empty when nothing is connected, else the one channel of the microphone.
Inputs ==
    {<<>>} \cup {<<channelData>> :
                    channelData \in UNION {[1..n -> SampleValues] : n \in 0..MaxFrame}}

\* typedArray[i] = v, i counted from 0: a store outside the array is ignored.
Store(array, i, v) ==
    IF i < Len(array) THEN [array EXCEPT ![i + 1] = v] ELSE array

\* Mutant of Full: the window is posted one sample late.
FullLate(n) == n > BufferSize

\* this._bytesWritten >= this._bufferSize
Full(n) == n >= BufferSize

\* The loop of process over the samples of channelData, from the state st of
\* the processor: each sample is stored and the index advanced; a full buffer
\* is posted as a copy and the index reset.
RECURSIVE Loop(_, _)
Loop(st, channelData) ==
    IF channelData = <<>> THEN st
    ELSE LET buf == Store(st.buffer, st.bytesWritten, Head(channelData))
             n == st.bytesWritten + 1
         IN  Loop(IF Full(n)
                  THEN [buffer |-> buf, bytesWritten |-> 0,
                        posted |-> Append(st.posted, buf)]
                  ELSE [buffer |-> buf, bytesWritten |-> n, posted |-> st.posted],
                  Tail(channelData))

\* process(inputs): one render quantum of the capture graph.
process(input) ==
    /\ input # <<>> => Len(captured) + Len(input[1]) <= MaxSamples
    /\ LET st == [buffer |-> buffer, bytesWritten |-> bytesWritten, posted |-> posted]
           r == IF input = <<>> THEN st ELSE Loop(st, input[1])
       IN  /\ buffer' = r.buffer
           /\ bytesWritten' = r.bytesWritten
           /\ posted' = r.posted
           /\ captured' = IF input = <<>> THEN captured ELSE captured \o input[1]
    /\ UNCHANGED <<now, otherVars, codecVars, textVars, outputAudioContext, schedVars, ttsVars,
                   isAudioEnabled, liveVars, chatVars, messages, transcriptVars,
                   nCreated, nPushed>>

----------------------------------------------------------------------------
\* encode, decode, createPcmBlob, decodeAudioData

\* A sample is the fraction num / Den, given by num; a decoded sample is the
\* fraction q / Int16Range, given by q.
Den == 10000

\* The samples given to createPcmBlob: inside, at and beyond the range [-1, 1].
SampleNums == {-15000, -10000, -9999, -5000, -1, 0, 1, 3333, 9999, 10000, 15000}

SampleArrays == UNION {[1..n -> SampleNums] : n \in 0..MaxArray}

ByteValues == {0, 1, 128, 255}

ByteArrays == UNION {[1..n -> ByteValues] : n \in 0..MaxBytes}

\* The '=' of base64; the other characters are given by their value 0..63.
Pad == 64

\* btoa of the string of the bytes: three bytes give four characters, and a
\* last group of one or two bytes is padded.
RECURSIVE encode(_)
encode(b) ==
    IF Len(b) = 0 THEN <<>>
    ELSE IF Len(b) = 1 THEN <<b[1] \div 4, (b[1] % 4) * 16, Pad, Pad>>
    ELSE IF Len(b) = 2
         THEN <<b[1] \div 4, (b[1] % 4) * 16 + b[2] \div 16, (b[2] % 16) * 4, Pad>>
    ELSE <<b[1] \div 4, (b[1] % 4) * 16 + b[2] \div 16,
           (b[2] % 16) * 4 + b[3] \div 64, b[3] % 64>>
         \o encode(SubSeq(b, 4, Len(b)))

\* The bytes of atob of the string: four characters give three bytes, fewer
\* where the group is padded.
RECURSIVE decode(_)
decode(s) ==
    IF Len(s) < 4 THEN <<>>
    ELSE LET b1 == s[1] * 4 + s[2] \div 16
             b2 == (s[2] % 16) * 16 + s[3] \div 4
             b3 == (s[3] % 4) * 64 + s[4]
         IN  (IF s[3] = Pad THEN <<b1>>
              ELSE IF s[4] = Pad THEN <<b1, b2>>
              ELSE <<b1, b2, b3>>)
             \o decode(SubSeq(s, 5, Len(s)))

\* The quotient a / b of integers, b > 0, with its fraction dropped: the
\* conversion of a number to an integer.
Trunc(a, b) == IF a >= 0 THEN a \div b ELSE -((-a) \div b)

\* The store of the integer x in an Int16Array.
ToInt16(x) == ((x + Int16Range) % (2 * Int16Range)) - Int16Range

\* Math.max(-1, Math.min(1, data[i])), on the numerators.
Clamp(num) == IF num > Den THEN Den ELSE IF num < -Den THEN -Den ELSE num

\* int16[i] = s < 0 ? s * 0x8000 : s * 0x7FFF
Quantize(num) ==
    LET s == Clamp(num)
    IN  ToInt16(IF s < 0 THEN Trunc(s * Int16Range, Den) ELSE Trunc(s * Int16Max, Den))

\* new Uint8Array(int16.buffer): two bytes for each element, the low one first.
RECURSIVE ViewBytes(_)
ViewBytes(int16) ==
    IF int16 = <<>> THEN <<>>
    ELSE LET u == Head(int16) % (2 * Int16Range)
         IN  <<u % 256, u \div 256>> \o ViewBytes(Tail(int16))

\* createPcmBlob(data).data
createPcmBlob(data) ==
    encode(ViewBytes([i \in 1..Len(data) |-> Quantize(data[i])]))

NoBuffer == [error |-> FALSE, channels |-> <<>>]

\* decodeAudioData(data, ctx, sourceSampleRate, channels).  sampleLength is
\* data.length / 2; the typed arrays and createBuffer drop the fraction of a
\* length; createBuffer throws NotSupportedError for a length of 0 frames.
\* The result is the channels of the buffer, or the error.
decodeAudioData(data, channels) ==
    LET length == Len(data) \div 2
        dataInt16 == [i \in 1..length |->
                         LET u == data[2 * i - 1] + 256 * data[2 * i]
                         IN  IF u >= Int16Range THEN u - 2 * Int16Range ELSE u]
        frames == Len(data) \div (2 * channels)
    IN  IF frames = 0 THEN [error |-> TRUE, channels |-> <<>>]
        ELSE [error |-> FALSE,
              channels |-> [ch \in 1..channels |->
                               [i \in 1..frames |-> dataInt16[(i - 1) * channels + ch]]]]

\* The capture path: the samples are made a blob.
MakeBlob ==
    /\ codecStep = "samples"
    /\ blob' = createPcmBlob(samples)
    /\ codecStep' = "blob"
    /\ UNCHANGED <<now, otherVars, textVars, captureVars, samples, numChannels, audioBuffer,
                   outputAudioContext, schedVars, ttsVars, isAudioEnabled, liveVars,
                   chatVars, messages, transcriptVars, nCreated, nPushed>>

\* The playback path: decodeAudioData(decode(audioData), ...).
MakeBuffer ==
    /\ codecStep = "blob"
    /\ audioBuffer' = decodeAudioData(decode(blob), numChannels)
    /\ codecStep' = "buffer"
    /\ UNCHANGED <<now, otherVars, textVars, captureVars, samples, blob, numChannels,
                   outputAudioContext, schedVars, ttsVars, isAudioEnabled, liveVars,
                   chatVars, messages, transcriptVars, nCreated, nPushed>>

----------------------------------------------------------------------------
\* processor.port.onmessage

\* The capture node's port and the promise of ai.live.connect: port is "none"
\* until onopen has assigned port.onmessage, then "open", and "closed" after
\* port.close(); promise is the state of sessionPromise; handled counts the
\* windows whose message event has been handled; reactions are the callbacks
\* given to sessionPromise.then that have not run, by the window they hold;
\* sent is what sendRealtimeInput was called with, in order.
NoUplink ==
    [port |-> "none", promise |-> "pending", handled |-> 0, reactions |-> <<>>,
     sent |-> <<>>]

\* Mutant of NextReaction: the callback registered last runs first.
LastReaction(rs) == Len(rs)

\* The callbacks of one promise run in the order of their then calls.
NextReaction(rs) == 1

\* onopen has connected the processor and assigned port.onmessage.
portConnected ==
    /\ uplink.port = "none"
    /\ uplink' = [uplink EXCEPT !.port = "open"]
    /\ UNCHANGED <<now, kernelVars, codecVars, captureVars, textVars, outputAudioContext, schedVars,
                   ttsVars, isAudioEnabled, liveVars, chatVars, messages,
                   transcriptVars, nCreated, nPushed>>

\* The inputs of a connected processor: render quanta of one size, half a
\* window.
Quanta == {<<q>> : q \in [1..(BufferSize \div 2) -> SampleValues]}

\* The processor of a connected node is given a render quantum.
capture(input) ==
    /\ uplink.port = "open"
    /\ process(input)

\* port.onmessage for the next window posted: the blob is made and the
\* callback that sends it is given to sessionPromise.then.
portOnMessage ==
    /\ uplink.port = "open"
    /\ uplink.handled < Len(posted)
    /\ LET k == uplink.handled + 1
           reaction == [window |-> k, media |-> createPcmBlob(posted[k])]
       IN  uplink' = [uplink EXCEPT
                         !.handled = k,
                         !.reactions = IF uplink.promise = "rejected" THEN @
                                       ELSE Append(@, reaction)]
    /\ UNCHANGED <<now, kernelVars, codecVars, captureVars, textVars, outputAudioContext, schedVars,
                   ttsVars, isAudioEnabled, liveVars, chatVars, messages,
                   transcriptVars, nCreated, nPushed>>

\* sessionPromise settles: resolved with the session, or rejected, and then
\* none of the callbacks runs.
connectSettles(resolved) ==
    /\ uplink.promise = "pending"
    /\ uplink' = [uplink EXCEPT
                     !.promise = IF resolved THEN "resolved" ELSE "rejected",
                     !.reactions = IF resolved THEN @ ELSE <<>>]
    /\ UNCHANGED <<now, kernelVars, codecVars, captureVars, textVars, outputAudioContext, schedVars,
                   ttsVars, isAudioEnabled, liveVars, chatVars, messages,
                   transcriptVars, nCreated, nPushed>>

\* A callback of sessionPromise.then runs: session.sendRealtimeInput.
sendRealtimeInput ==
    /\ uplink.promise = "resolved"
    /\ uplink.reactions # <<>>
    /\ LET k == NextReaction(uplink.reactions)
       IN  uplink' = [uplink EXCEPT !.reactions = RemoveAt(@, k),
                                    !.sent = Append(@, uplink.reactions[k])]
    /\ UNCHANGED <<now, kernelVars, codecVars, captureVars, textVars, outputAudioContext, schedVars,
                   ttsVars, isAudioEnabled, liveVars, chatVars, messages,
                   transcriptVars, nCreated, nPushed>>

\* audioWorkletNodeRef.current.port.close() of stopLiveSession: no message
\* event is delivered after it.
portClose ==
    /\ uplink.port = "open"
    /\ uplink' = [uplink EXCEPT !.port = "closed"]
    /\ UNCHANGED <<now, kernelVars, codecVars, captureVars, textVars, outputAudioContext, schedVars,
                   ttsVars, isAudioEnabled, liveVars, chatVars, messages,
                   transcriptVars, nCreated, nPushed>>

----------------------------------------------------------------------------
\* The history of a text chat request

\* Mutant of slice: the list is taken whole.
sliceNothing(list) == list

\* messages.slice(0, -1)
slice(list) == SubSeq(list, 1, Len(list) - 1)

\* The loop of formatHistory over messagesToProcess, from its k-th message
\* on, with the history built so far: an empty model entry is skipped, a text
\* that is not empty makes one part, and an entry with no part is not pushed.
RECURSIVE HistoryFrom(_, _, _)
HistoryFrom(messagesToProcess, k, history) ==
    IF k > Len(messagesToProcess)
    THEN history
    ELSE LET message == messagesToProcess[k]
             parts == IF message.text # <<>> THEN <<[text |-> message.text]>> ELSE <<>>
         IN  IF message.role = "model" /\ message.text = <<>>
             THEN HistoryFrom(messagesToProcess, k + 1, history)
             ELSE IF Len(parts) > 0
                  THEN HistoryFrom(messagesToProcess, k + 1,
                                   Append(history, [role |-> message.role, parts |-> parts]))
                  ELSE HistoryFrom(messagesToProcess, k + 1, history)

formatHistory(list) == HistoryFrom(slice(list), 1, <<>>)

\* The texts of the entries of a message list: none, the text of a chat
\* message, and a transcription in progress.
Texts == {<<>>, <<Chat>>, <<"toi", Dots>>}

\* The lists handleSendMessage gives to streamChat: the greeting, up to
\* MaxPrior entries of earlier turns, and the user message of this turn, whose
\* text is empty when only an image is sent.
MessageLists ==
    {<<Entry("model", <<Chat>>)>> \o prior \o <<Entry("user", prompt)>> :
        prior \in UNION {[1..n -> [role : {"user", "model"}, text : Texts]] :
                            n \in 0..MaxPrior},
        prompt \in Texts}

\* streamChat up to chats.create: the history is made from the messages.
streamChat ==
    /\ ~chat.created
    /\ chat' = [chat EXCEPT !.history = formatHistory(chat.messages), !.created = TRUE]
    /\ UNCHANGED <<now, quiz, uplink, codecVars, captureVars, textVars, outputAudioContext,
                   schedVars, ttsVars, isAudioEnabled, liveVars, chatVars, messages,
                   transcriptVars, nCreated, nPushed>>

----------------------------------------------------------------------------
\* The quiz

\* The variables of the chatbot: QuizModal touches none of them.
chatbotVars == <<now, chat, uplink, codecVars, captureVars, textVars, outputAudioContext,
                 schedVars, ttsVars, isAudioEnabled, liveVars, chatVars, messages,
                 transcriptVars, nCreated, nPushed>>

\* The question lists the service may answer with, a question being given by
\* its correctIndex: an index of one of its MaxOptions options, or MaxOptions,
\* which is the index of none. The list may be empty.
QuestionLists == UNION {[1..n -> 0..MaxOptions] : n \in 0..MaxQuestions}

\* The phases the modal renders. Index k of the code is position k + 1 here.
SelectionShown == ~quiz.selectedLocation
QuizShown == ~quiz.loading /\ Len(quiz.questions) > 0 /\ ~quiz.showResult

\* Mutant of Answered: an answer may be given again.
NeverAnswered(questionIndex) == FALSE

\* userAnswers[questionIndex] !== null
Answered(questionIndex) == quiz.userAnswers[questionIndex + 1] # Null

\* Mutant of hasAnsweredCurrent: the button is offered at once.
OfferedAtOnce == TRUE

hasAnsweredCurrent ==
    /\ Len(quiz.userAnswers) > quiz.currentIndex
    /\ quiz.userAnswers[quiz.currentIndex + 1] # Null

\* The reduce of calculateScore, from position k on.
RECURSIVE ScoreFrom(_, _)
ScoreFrom(k, acc) ==
    IF k > Len(quiz.userAnswers)
    THEN acc
    ELSE ScoreFrom(k + 1, IF /\ k <= Len(quiz.questions)
                             /\ quiz.userAnswers[k] = quiz.questions[k]
                          THEN acc + 1 ELSE acc)

calculateScore == ScoreFrom(1, 0)

\* generateQuiz up to its await: a location of the selection, or the replay
\* button of the result.
generateQuiz ==
    /\ SelectionShown \/ quiz.showResult
    /\ quiz' = [selectedLocation |-> TRUE, loading |-> TRUE, questions |-> <<>>,
                userAnswers |-> <<>>, currentIndex |-> 0, showResult |-> FALSE]
    /\ UNCHANGED chatbotVars

\* generateContent settles: with the text of a question list, or with no
\* text or an exception (failed).
generateQuizSettles(data, failed) ==
    /\ quiz.loading
    /\ quiz' = IF failed
               THEN [quiz EXCEPT !.loading = FALSE]
               ELSE [quiz EXCEPT !.questions = data,
                                 !.userAnswers = [k \in 1..Len(data) |-> Null],
                                 !.loading = FALSE]
    /\ UNCHANGED chatbotVars

\* handleAnswer, from an option button of any of the slides.
handleAnswer(questionIndex, optionIndex) ==
    /\ QuizShown
    /\ questionIndex < Len(quiz.questions)
    /\ IF Answered(questionIndex)
       THEN UNCHANGED quiz
       ELSE quiz' = [quiz EXCEPT !.userAnswers[questionIndex + 1] = optionIndex]
    /\ UNCHANGED chatbotVars

\* nextQuestion, from the button of the feedback area.
nextQuestion ==
    /\ QuizShown
    /\ hasAnsweredCurrent
    /\ quiz' = IF quiz.currentIndex < Len(quiz.questions) - 1
               THEN [quiz EXCEPT !.currentIndex = quiz.currentIndex + 1]
               ELSE [quiz EXCEPT !.showResult = TRUE]
    /\ UNCHANGED chatbotVars

\* resetQuiz, from the button of the result.
resetQuiz ==
    /\ quiz.showResult
    /\ quiz' = [selectedLocation |-> FALSE, questions |-> <<>>, userAnswers |-> <<>>,
                currentIndex |-> 0, showResult |-> FALSE, loading |-> quiz.loading]
    /\ UNCHANGED chatbotVars

QuizNext ==
    \/ generateQuiz
    \/ \E data \in QuestionLists, failed \in BOOLEAN : generateQuizSettles(data, failed)
    \/ \E questionIndex \in 0..(MaxQuestions - 1), optionIndex \in 0..(MaxOptions - 1) :
          handleAnswer(questionIndex, optionIndex)
    \/ nextQuestion
    \/ resetQuiz

----------------------------------------------------------------------------
\* The system

Constructed ==
    /\ now = 0
    /\ outputAudioContext \in {"none", "suspended", "running"}
    /\ audioQueue = <<>>
    /\ isScheduling = FALSE
    /\ nextStartTime = 0
    /\ audioSource = 0
    /\ device = <<>>
    /\ passes = <<>>
    /\ ttsPromiseQueue = <<>>
    /\ ttsAwaited = NoJob
    /\ isProcessingTts = FALSE
    /\ isAudioEnabled = TRUE
    /\ currentlyPlayingIndex = Null
    /\ isLiveSessionActive = FALSE
    /\ sessions = <<>>
    /\ microphoneStream = 0
    /\ liveSessionRef = 0
    /\ inputAudioContext = 0
    /\ audioWorkletNode = 0
    /\ liveError = "none"
    /\ timers = <<>>
    /\ currentUserTranscription = <<>>
    /\ currentModelTranscription = <<>>
    /\ modelFragments = 0
    /\ pendingUpdates = <<>>
    /\ isLoading = FALSE
    /\ stream = NoStream
    /\ messages = [k \in 1..InitialMessages |-> Entry("model", <<Chat>>)]
    /\ nCreated = 0
    /\ nPushed = 0
    /\ fullText = <<>>
    /\ nChunks = 0
    /\ spoken = <<>>
    /\ flushed = 0
    /\ buffer = [k \in 1..BufferSize |-> 0]
    /\ bytesWritten = 0
    /\ posted = <<>>
    /\ captured = <<>>
    /\ uplink = NoUplink
    /\ quiz = NoQuiz

\* The state after construction: no conversion is under way.
Init ==
    /\ Constructed
    /\ chat = NoChat
    /\ samples = <<>>
    /\ blob = <<>>
    /\ numChannels = 1
    /\ audioBuffer = NoBuffer
    /\ codecStep = "idle"

\* A sample array is given to createPcmBlob, to be decoded as one channel.
RoundTripInit ==
    /\ Constructed
    /\ chat = NoChat
    /\ samples \in SampleArrays
    /\ blob = <<>>
    /\ numChannels = 1
    /\ audioBuffer = NoBuffer
    /\ codecStep = "samples"

\* The base64 string of any bytes is given to decode and decodeAudioData.
DecodeInit ==
    /\ Constructed
    /\ chat = NoChat
    /\ samples = <<>>
    /\ blob \in {encode(b) : b \in ByteArrays}
    /\ numChannels \in 1..MaxChannels
    /\ audioBuffer = NoBuffer
    /\ codecStep = "blob"

\* streamChat is called with a message list.
HistoryInit ==
    /\ Constructed
    /\ chat \in {[NoChat EXCEPT !.messages = list] : list \in MessageLists}
    /\ samples = <<>>
    /\ blob = <<>>
    /\ numChannels = 1
    /\ audioBuffer = NoBuffer
    /\ codecStep = "idle"

\* The messages of the live session that carry audio and nothing else.
AudioMessages == {LiveMessage("none", "none", TRUE, p, FALSE) : p \in Payloads}

\* The messages of the live session: every combination of parts, the audio
\* being one decodable payload; the text of an outputTranscription may be
\* the empty string.
LiveMessages ==
    {m \in [input : Fragments \cup {"none"}, output : {"toi", "", "none"},
            hasAudio : BOOLEAN, audio : {[ok |-> TRUE, dur |-> 1]},
            turnComplete : BOOLEAN] :
        m.input # "none" \/ m.output # "none" \/ m.hasAudio \/ m.turnComplete}

\* The messages of one part that carry audio or a fragment of the user's
\* speech.
PartMessages ==
    {m \in LiveMessages :
        /\ m.output = "none" /\ ~m.turnComplete
        /\ m.input \in {"toi", "none"}
        /\ (m.input = "none") = m.hasAudio}

\* The audio core: text chat, TTS and a live session that starts without
\* failure and sends audio.
Next ==
    \/ Tick
    \/ \E i \in 1..Len(passes) : ResumeDone(i)
    \/ \E i \in 1..Len(passes) : ResumeRejected(i)
    \/ \E i \in 1..Len(passes) : DecodeDone(i)
    \/ \E i \in 1..Len(passes), exhausted \in BOOLEAN : DecodeFailed(i, exhausted)
    \/ \E k \in 1..Len(device) : OnEnded(k)
    \/ toggleAudio
    \/ startLiveSessionThrough
    \/ stopLiveSession(FALSE)
    \/ \E i \in 1..Len(sessions), m \in AudioMessages : handleLiveMessage(i, m, FALSE)
    \/ \E n \in 1..MaxItems, audio \in BOOLEAN, p \in Payloads :
          textToSpeechSettles(n, audio, p)
    \/ TtsContinue
    \/ handleSendMessage
    \/ \E kind \in ChunkKinds : StreamChunk(kind)
    \/ \E failed \in BOOLEAN : StreamEnd(failed)

\* The live session controller: every outcome of the start of a session, its
\* end from either side, every kind of message, the renders and the timers.
LiveNext ==
    \/ \E i \in 1..Len(passes) : ResumeDone(i)
    \/ \E i \in 1..Len(passes) : DecodeDone(i)
    \/ startLiveSession
    \/ \E i \in 1..Len(sessions) : getUserMediaGranted(i)
    \/ \E i \in 1..Len(sessions) : getUserMediaDenied(i)
    \/ \E i \in 1..Len(sessions) : connectRejected(i)
    \/ \E i \in 1..Len(sessions) : onopen(i)
    \/ \E i \in 1..Len(sessions) : addModuleDone(i)
    \/ \E i \in 1..Len(sessions) : addModuleFailed(i)
    \/ \E i \in 1..Len(sessions) : onclose(i)
    \/ \E i \in 1..Len(sessions) : onerror(i)
    \/ \E thrown \in BOOLEAN : stopLiveSession(thrown)
    \/ \E i \in 1..Len(sessions), m \in PartMessages, eager \in BOOLEAN :
          handleLiveMessage(i, m, eager)
    \/ Render
    \/ Second
    \/ TimerFires

\* The transcripts of a live session that starts without failure: every kind
\* of message, and the renders.
TranscriptNext ==
    \/ \E i \in 1..Len(passes) : ResumeDone(i)
    \/ \E i \in 1..Len(passes) : DecodeDone(i)
    \/ startLiveSessionThrough
    \/ stopLiveSession(FALSE)
    \/ \E i \in 1..Len(sessions), m \in LiveMessages, eager \in BOOLEAN :
          handleLiveMessage(i, m, eager)
    \/ Render

\* The payloads of the replies read aloud: one that does not decode, one
\* short, one as long as the tolerance of onended.
LongPayloads ==
    {[ok |-> FALSE, dur |-> 0], [ok |-> TRUE, dur |-> 1], [ok |-> TRUE, dur |-> LongDur]}

\* The ended event of a source is dispatched to onended less than the
\* tolerance after the source's end: the device clock does not reach the
\* end plus the tolerance while the event is waiting.
Deadline ==
    LET waiting == {k \in 1..Len(device) : ~device[k].ended}
        due == {device[k].start + device[k].dur + Tolerance - 1 : k \in waiting}
                   \cup {LastTick}
    IN  CHOOSE t \in due : \A u \in due : t <= u

\* The playback of a reply read aloud, with segments as long as the
\* tolerance and the clock running to their end.
PlaybackNext ==
    \/ Advance(Deadline)
    \/ \E i \in 1..Len(passes) : ResumeDone(i)
    \/ \E i \in 1..Len(passes) : DecodeDone(i)
    \/ \E i \in 1..Len(passes), exhausted \in BOOLEAN : DecodeFailed(i, exhausted)
    \/ \E k \in 1..Len(device) : OnEnded(k)
    \/ \E n \in 1..MaxItems, audio \in BOOLEAN, p \in LongPayloads :
          textToSpeechSettles(n, audio, p)
    \/ TtsContinue
    \/ handleSendMessage
    \/ \E kind \in ChunkKinds : StreamChunk(kind)
    \/ \E failed \in BOOLEAN : StreamEnd(failed)

\* The text chat with the text of the reply.
SpeechNext ==
    \/ toggleAudio
    \/ handleSendMessage
    \/ \E chunk \in Chunks : StreamText(chunk)
    \/ \E failed \in BOOLEAN : StreamEnd(failed)

\* The text chat over two turns, the chunks by their kind.
SendNext ==
    \/ sendMessage(MaxSent)
    \/ \E kind \in ChunkKinds : StreamChunk(kind)
    \/ \E failed \in BOOLEAN : StreamEnd(failed)

\* The capture processor on the audio thread.
CaptureNext == \E input \in Inputs : process(input)

\* The conversions of the capture and playback paths, one after the other.
RoundTripNext == MakeBlob \/ MakeBuffer

\* The text chat read aloud: the reply stream, the synthesis of its jobs, the
\* drain loop and the scheduler.
DrainNext ==
    \/ \E i \in 1..Len(passes) : ResumeDone(i)
    \/ \E i \in 1..Len(passes) : DecodeDone(i)
    \/ \E i \in 1..Len(passes), exhausted \in BOOLEAN : DecodeFailed(i, exhausted)
    \/ toggleAudio
    \/ \E n \in 1..MaxItems, audio \in BOOLEAN, p \in Payloads :
          textToSpeechSettles(n, audio, p)
    \/ TtsContinue
    \/ handleSendMessage
    \/ \E kind \in ChunkKinds : StreamChunk(kind)
    \/ \E failed \in BOOLEAN : StreamEnd(failed)

\* The capture path from the processor to the remote session.
UplinkNext ==
    \/ portConnected
    \/ \E input \in Quanta : capture(input)
    \/ portOnMessage
    \/ \E resolved \in BOOLEAN : connectSettles(resolved)
    \/ sendRealtimeInput
    \/ portClose

Spec == Init /\ [][Next]_vars

UplinkSpec == Init /\ [][UplinkNext]_vars

\* textToSpeech returns in every case, with the audio or with null (its
\* request answered, or failed and caught), and the continuation of
\* `await promise` runs once the promise has settled.
DrainSpec ==
    /\ Init /\ [][DrainNext]_vars
    /\ WF_vars(TtsContinue)
    /\ \A n \in 1..MaxItems :
          WF_vars(\E audio \in BOOLEAN, p \in Payloads : textToSpeechSettles(n, audio, p))

RoundTripSpec == RoundTripInit /\ [][RoundTripNext]_vars

HistorySpec == HistoryInit /\ [][streamChat]_vars

\* The stream of a reply ends: the service closes it, or the request fails
\* and the loop throws.
SendSpec ==
    /\ Init /\ [][SendNext]_vars
    /\ WF_vars(\E failed \in BOOLEAN : StreamEnd(failed))

QuizSpec == Init /\ [][QuizNext]_vars

DecodeSpec == DecodeInit /\ [][MakeBuffer]_vars

CaptureSpec == Init /\ [][CaptureNext]_vars

SpeechSpec == Init /\ [][SpeechNext]_vars

PlaybackSpec == Init /\ [][PlaybackNext]_vars

\* The continuation of `await decodeAudioData(...)` is a microtask: the event
\* loop runs it whenever it is pending.
FairSpec == Spec /\ WF_vars(\E i \in 1..Len(passes) : DecodeDone(i))

LiveSpec == Init /\ [][LiveNext]_vars

TranscriptSpec == Init /\ [][TranscriptNext]_vars

----------------------------------------------------------------------------
\* Properties

\* The sources not stopped that play, or are due to play, at time t.
Sounding(dev, t) ==
    {k \in 1..Len(dev) : ~dev[k].stopped /\ t < dev[k].start + dev[k].dur}

\* The entries of the playback queue and the sources of the device that came
\* from the TTS path.
TtsPushed ==
    {[id |-> audioQueue[k].id, job |-> audioQueue[k].job] :
        k \in {n \in 1..Len(audioQueue) : audioQueue[n].job # 0}}
    \cup {[id |-> device[k].id, job |-> device[k].job] :
        k \in {n \in 1..Len(device) : device[n].job # 0}}

AllDecodable(q) == \A k \in 1..Len(q) : q[k].ok

\* C1: the device is given non-decreasing start times, and each source starts
\* no earlier than the source started before it ends (start + duration): no
\* two scheduled segments overlap, whatever path they came from.
C1_NoOverlap ==
    \A k \in 1..Len(device) - 1 :
        /\ device[k + 1].start >= device[k].start
        /\ device[k + 1].start >= device[k].start + device[k].dur

\* A live segment and a TTS segment are scheduled one after the other, and a
\* later source was started with the lead-in because the cursor had fallen
\* behind the device clock.
C1_Witness ==
    /\ \E j, k \in 1..Len(device) : device[j].job = 0 /\ device[k].job # 0
    /\ \E k \in 1..Len(device) - 1 :
          device[k + 1].start > device[k].start + device[k].dur

\* C2: sources are started in the order in which their segments were pushed
\* to the playback queue (ids number the pushes), and every segment still
\* queued was pushed after every segment already started.
C2_StartedInPushOrder ==
    /\ \A j, k \in 1..Len(device) : j < k => device[j].id < device[k].id
    /\ \A j \in 1..Len(device), k \in 1..Len(audioQueue) :
          device[j].id < audioQueue[k].id
    /\ \A j, k \in 1..Len(audioQueue) : j < k => audioQueue[j].id < audioQueue[k].id

\* Three segments have been started, from both paths.
C2_Witness ==
    /\ Len(device) = 3
    /\ device[1].job # 0
    /\ device[2].job = 0
    /\ device[3].job # 0

\* C3: segments of TTS jobs are pushed to the playback queue in the order in
\* which the jobs were created (job numbers), whatever the order in which the
\* synthesis promises settle.
C3_TtsPushOrder ==
    \A a, b \in TtsPushed : a.job < b.job => a.id < b.id

\* The segment of the first job has been pushed, the second job is awaited
\* and still pending, and the third job has already settled with audio.
C3_Witness ==
    /\ \E a \in TtsPushed : a.job = 1
    /\ ttsAwaited.job = 2 /\ ttsAwaited.state = "pending"
    /\ Len(ttsPromiseQueue) = 1
    /\ ttsPromiseQueue[1].job = 3 /\ ttsPromiseQueue[1].state = "audio"

\* C4 (the claim): after the decode of a segment has failed, that segment is
\* not decoded again: the pass started from finally holds another segment.
C4_FailedSegmentDropped ==
    \A i \in 1..Len(passes) :
        passes[i].pc = "decode" => passes[i].item.id # passes[i].after

\* C5: the step that takes up a job whose synthesis gave no audio pushes
\* nothing to the playback queue and goes on with the next job of the list
\* (or ends the loop when the list is empty); the step that takes up a job
\* that gave audio pushes its segment.
C5_FailedJobSkipped ==
    [][(ttsAwaited.job # 0 /\ ttsAwaited.state # "pending" /\ ttsAwaited' # ttsAwaited)
        => /\ ttsAwaited.state = "null" =>
                /\ audioQueue' = audioQueue
                /\ nPushed' = nPushed
           /\ ttsAwaited.state = "audio" =>
                /\ Len(audioQueue') = Len(audioQueue) + 1
                /\ audioQueue'[Len(audioQueue')].job = ttsAwaited.job
           /\ IF Len(ttsPromiseQueue) > 0
              THEN /\ ttsAwaited' = Head(ttsPromiseQueue)
                   /\ ttsPromiseQueue' = Tail(ttsPromiseQueue)
                   /\ isProcessingTts'
              ELSE /\ ttsAwaited' = NoJob
                   /\ ~isProcessingTts']_vars

\* The segment of job 2 is the first entry ever pushed: job 1 was taken up
\* before it and pushed nothing.
C5_Witness ==
    \E a \in TtsPushed : a.job = 2 /\ a.id = 1

\* C6: at most one scheduleAudio invocation is past the guard, it holds the
\* flag, and no two sources were started at the same time.
C6_OnePassInFlight ==
    /\ Len(passes) <= 1
    /\ Len(passes) = 1 => isScheduling
    /\ \A j, k \in 1..Len(device) : j < k => device[j].start # device[k].start

\* A pass is suspended at the decode of the head while two more entries are
\* queued: the scheduleAudio calls of their pushes returned at the guard.
C6_Witness ==
    /\ Len(passes) = 1
    /\ passes[1].pc = "decode"
    /\ Len(audioQueue) = 3

\* With an output device, whenever the flag is clear the queue is empty or
\* holds an undecodable segment, and whenever the device runs and the queue
\* holds decodable segments a pass is in flight that is decoding the head.
PassForEveryPush ==
    /\ (outputAudioContext # "none" /\ ~isScheduling /\ AllDecodable(audioQueue))
          => audioQueue = <<>>
    /\ (outputAudioContext = "running" /\ audioQueue # <<>> /\ AllDecodable(audioQueue))
          => \E i \in 1..Len(passes) :
                passes[i].pc = "decode" /\ passes[i].item = Head(audioQueue)

C8_ToggleOffSilences ==
    [][(isAudioEnabled /\ ~isAudioEnabled')
        => /\ Sounding(device', now') = {}
           /\ audioQueue' = <<>>
           /\ currentlyPlayingIndex' = Null]_vars

\* C9 (the claim): a live message that arrives while output is off is pushed
\* to the queue, and a source for a live segment is started only while output
\* is enabled.
C9_LiveNotPlayedWhileOff ==
    [][/\ (nCreated' > nCreated /\ nPushed' > nPushed /\ ~isAudioEnabled)
            => Len(audioQueue') = Len(audioQueue) + 1
       /\ (Len(device') > Len(device) /\ device'[Len(device')].job = 0)
            => isAudioEnabled]_vars

\* C10 (the claim): a pass that was suspended at an await when output was
\* toggled off starts no source while output is off.
C10_StaleResultDiscarded ==
    [][Len(device') > Len(device)
        => \A i \in 1..Len(passes) :
              (passes[i].pc = "decode" /\ passes[i].item.id = device'[Len(device')].id)
                 => ~(passes[i].muted /\ ~isAudioEnabled)]_vars

\* C11 (the claim): a synthesis result that resolves after output was toggled
\* off, for a job that was pending at the toggle, is not appended to the
\* playback queue while output is off.
C11_LateSynthesisDiscarded ==
    [][(ttsAwaited.muted /\ ~isAudioEnabled)
        => \A k \in 1..Len(audioQueue') : audioQueue'[k].job # ttsAwaited.job]_vars

\* The controller is idle after stopLiveSession was called on every
\* invocation there has been.
StoppedIdle ==
    /\ ~isLiveSessionActive
    /\ sessions # <<>>
    /\ \A k \in 1..Len(sessions) : sessions[k].stoppedAt # "none"

\* C12 (the claim): once the live session has been stopped, a message of the
\* remote session appends no segment to the playback queue, queues no update
\* of the message list and changes no entry of it.
C12_LateMessageDiscarded ==
    [][StoppedIdle
        => /\ ~(nCreated' > nCreated /\ nPushed' > nPushed)
           /\ Len(pendingUpdates') <= Len(pendingUpdates)
           /\ (pendingUpdates = <<>> /\ Len(messages') = Len(messages))
                 => messages' = messages]_vars

\* An invocation of startLiveSession whose microphone request was denied.
Denied(s) == s.pc = "returned" /\ s.stream = "none"

\* C13: the step in which getUserMedia rejects leaves the session reported
\* inactive and the error message shown and touches none of the four refs,
\* and an invocation that was denied never has a remote session, an input
\* context or a capture node.
C13_DenialEndsIdle ==
    /\ [](\A i \in 1..Len(sessions) :
             Denied(sessions[i])
                => /\ sessions[i].remote = "none"
                   /\ sessions[i].ctx = "none"
                   /\ sessions[i].node = "none")
    /\ [][\A i \in 1..Len(sessions) :
             (sessions[i].pc = "getUserMedia" /\ sessions'[i].pc = "returned")
                => /\ ~isLiveSessionActive'
                   /\ liveError' = "start"
                   /\ UNCHANGED <<microphoneStream, liveSessionRef, inputAudioContext,
                                  audioWorkletNode>>]_vars

\* The microphone was denied to a start that the user had not stopped: the
\* controller is idle, the message is shown and its dismissal is armed.
C13_Witness ==
    /\ \E i \in 1..Len(sessions) :
          Denied(sessions[i]) /\ sessions[i].stoppedAt = "none"
    /\ ~isLiveSessionActive
    /\ liveError = "start"
    /\ timers = <<DismissSeconds>>

\* C14 (the claim): whenever the session is reported inactive, no invocation
\* holds a live microphone stream, a connected capture node or an open input
\* context.
C14_IdleHoldsNothing ==
    ~isLiveSessionActive
        => \A i \in 1..Len(sessions) :
              /\ sessions[i].stream # "live"
              /\ sessions[i].node # "connected"
              /\ sessions[i].ctx # "open"

\* C15 (the claim): after a call of stopLiveSession, whether it returned or
\* threw, what the four refs held has been released, the refs are null and
\* the session is reported inactive.
C15_StopReleasesAll ==
    [][(\E i \in 1..Len(sessions) :
            sessions[i].stoppedAt = "none" /\ sessions'[i].stoppedAt # "none")
        => /\ liveSessionRef # 0 => sessions'[liveSessionRef].remote # "open"
           /\ microphoneStream # 0 => sessions'[microphoneStream].stream = "stopped"
           /\ audioWorkletNode # 0 => sessions'[audioWorkletNode].node = "closed"
           /\ inputAudioContext # 0 => sessions'[inputAudioContext].ctx = "closed"
           /\ liveSessionRef' = 0 /\ microphoneStream' = 0
           /\ audioWorkletNode' = 0 /\ inputAudioContext' = 0
           /\ ~isLiveSessionActive']_vars

\* C16 (the claim): while the session is reported inactive, an invocation
\* that was stopped before its handshake completed has no open remote
\* session, is not held in liveSessionRef and has no open input context and
\* no connected capture node.
C16_StoppedConnectingNotOpen ==
    ~isLiveSessionActive
        => \A i \in 1..Len(sessions) :
              sessions[i].stoppedAt \in {"getUserMedia", "connecting"}
                 => /\ sessions[i].remote # "open"
                    /\ liveSessionRef # i
                    /\ sessions[i].ctx # "open"
                    /\ sessions[i].node # "connected"

\* C17: the step in which onerror runs leaves the session reported inactive
\* and the server-error message shown and arms a dismissal of DismissSeconds;
\* while that message is shown a dismissal with at most DismissSeconds left
\* is pending, and a dismissal that fires clears the message.
C17_TransportErrorSelfClears ==
    /\ [](liveError = "server"
            => /\ timers # <<>>
               /\ \A k \in 1..Len(timers) : timers[k] <= DismissSeconds)
    /\ [][(\E i \in 1..Len(sessions) :
               sessions[i].remote # "errored" /\ sessions'[i].remote = "errored")
            => /\ ~isLiveSessionActive'
               /\ liveError' = "server"
               /\ timers' = Append(timers, DismissSeconds)]_vars
    /\ [][Len(timers') < Len(timers) => liveError' = "none"]_vars

\* The transport failed while the session was open and capturing, and the
\* message it showed has been cleared by its dismissal.
C17_Witness ==
    /\ \E i \in 1..Len(sessions) :
          /\ sessions[i].remote = "errored"
          /\ sessions[i].node = "connected"
          /\ sessions[i].stoppedAt = "none"
    /\ ~isLiveSessionActive
    /\ liveError = "none"
    /\ timers = <<>>

\* C18 (the claim): every step that sets an error message arms a dismissal.
C18_EveryErrorDismissed ==
    [][(liveError' # "none" /\ liveError' # liveError)
        => timers' = Append(timers, DismissSeconds)]_vars

\* C19 (the claim): the session is reported active only when the handshake
\* of some invocation has succeeded, that is, its onopen has run.
C19_ActiveAfterHandshake ==
    isLiveSessionActive
        => \E i \in 1..Len(sessions) : sessions[i].onopen # "none"

\* The message list as the last queued updater finds it at a render now.
BeforeLast ==
    ApplyAll(messages, SubSeq(pendingUpdates, 1, Len(pendingUpdates) - 1),
             currentUserTranscription, currentModelTranscription)

\* The last user entry of the list is in progress.
InProgress(list) == LastUser(list) # 0 /\ EndsWithDots(list[LastUser(list)].text)

\* C20 (the claim): when the updater of a turn-complete signal is run at a
\* render and finds the user entry in progress, the text the entry has after
\* the render is the user buffer as it was when the signal arrived.
C20_FinalTextIsBufferAtSignal ==
    [][(/\ pendingUpdates # <<>>
        /\ pendingUpdates' = <<>>
        /\ pendingUpdates[Len(pendingUpdates)].kind = "turnComplete"
        /\ InProgress(BeforeLast))
        => messages'[LastUser(messages')].text
              = pendingUpdates[Len(pendingUpdates)].signal]_vars

\* C21 (the claim): when no update of the list is pending and the turn has
\* user fragments, the last user entry reads those fragments followed by
\* the ellipsis.
C21_UserEntryShowsBuffer ==
    (pendingUpdates = <<>> /\ currentUserTranscription # <<>>)
        => /\ LastUser(messages) # 0
           /\ messages[LastUser(messages)].text
                 = Append(currentUserTranscription, Dots)

\* The updaters queued in q that append a model entry.
Appends(q) == Cardinality({k \in 1..Len(q) : q[k].kind = "append"})

\* C22 (the claim): a model fragment that is not the first of its turn
\* creates no entry, neither at once nor by a queued update.
C22_OneModelEntryPerTurn ==
    [][(modelFragments > 0 /\ modelFragments' > modelFragments)
        => /\ Len(messages') = Len(messages)
           /\ Appends(pendingUpdates') = Appends(pendingUpdates)]_vars

\* C23: every queued segment of the live session has no message reference;
\* a segment pushed from the TTS path has the reference of the job awaited;
\* and the start of a source for a segment with no reference leaves the
\* currently-playing marker as it was.
C23_ReferenceBySource ==
    /\ [](\A k \in 1..Len(audioQueue) :
             audioQueue[k].job = 0 => audioQueue[k].messageIndex = Null)
    /\ [][\A k \in 1..Len(audioQueue') :
             (audioQueue'[k].id > nPushed /\ audioQueue'[k].job # 0)
                => /\ audioQueue'[k].job = ttsAwaited.job
                   /\ audioQueue'[k].messageIndex = ttsAwaited.messageIndex]_vars
    /\ [][\A i \in 1..Len(passes) :
             (/\ Len(device') > Len(device)
              /\ passes[i].pc = "decode"
              /\ passes[i].item.id = device'[Len(device')].id
              /\ passes[i].item.messageIndex = Null)
                => currentlyPlayingIndex' = currentlyPlayingIndex]_vars

\* A source of the live session has been started while the marker was on a
\* message of the text chat, and a TTS segment with its reference is queued.
C23_Witness ==
    /\ device # <<>>
    /\ device[Len(device)].job = 0
    /\ currentlyPlayingIndex # Null
    /\ \E k \in 1..Len(audioQueue) :
          audioQueue[k].job # 0 /\ audioQueue[k].messageIndex # Null

\* The entry of the list at the index idx, which counts from 0.
At(list, idx) == list[idx + 1]

\* C24 (the claim): the reference of every TTS job is the index of an entry
\* of the list, and that entry is a model entry.
C24_ReferenceIsModelEntry ==
    \A j \in {ttsAwaited} \cup {ttsPromiseQueue[k] : k \in 1..Len(ttsPromiseQueue)} :
        j.job # 0
           => /\ j.messageIndex < Len(messages)
              /\ At(messages, j.messageIndex).role = "model"

\* C29: a source is started at the cursor when the cursor is not behind the
\* device time, and LeadIn after the device time when it is, so never before
\* the device time; the cursor is then the start plus the duration of the
\* segment, and the cursor never decreases.
C29_StartNotInThePast ==
    /\ [][Len(device') > Len(device)
            => LET src == device'[Len(device')]
               IN  /\ src.start >= now
                   /\ src.start = IF nextStartTime >= now THEN nextStartTime
                                  ELSE now + LeadIn
                   /\ nextStartTime' = src.start + src.dur]_vars
    /\ [][nextStartTime' >= nextStartTime]_vars

\* The first source was started LeadIn after the device time, the cursor
\* having fallen behind, and the second at the cursor.
C29_Witness ==
    /\ Len(device) >= 2
    /\ device[1].start >= 1 + LeadIn
    /\ device[2].start = device[1].start + device[1].dur


\* The sources handed to the device have all ended and their ended events
\* been handled, and nothing is queued or being scheduled.
Finished ==
    /\ device # <<>>
    /\ \A k \in 1..Len(device) : device[k].ended
    /\ audioQueue = <<>>
    /\ passes = <<>>

C25_JobSpeaksAccumulatedText ==
    [][Len(spoken') > Len(spoken)
        => spoken'[Len(spoken')] = SubSeq(fullText', flushed + 1, Len(fullText'))]_vars

\* The concatenation of the windows ws.
RECURSIVE Concat(_)
Concat(ws) == IF ws = <<>> THEN <<>> ELSE Head(ws) \o Concat(Tail(ws))

\* C26: every window posted by the capture processor has exactly BufferSize
\* samples; the windows posted so far, concatenated, are the first
\* BufferSize * floor(n / BufferSize) of the n samples captured, in order, so
\* that a partial window is never posted; and a window once posted is not
\* changed by later input.
C26_WholeWindowsInOrder ==
    /\ [](/\ \A k \in 1..Len(posted) : Len(posted[k]) = BufferSize
          /\ Concat(posted) =
                 SubSeq(captured, 1, BufferSize * (Len(captured) \div BufferSize)))
    /\ [][/\ Len(posted') >= Len(posted)
          /\ \A k \in 1..Len(posted) : posted'[k] = posted[k]]_vars

\* Two windows of different content have been posted and samples of a third
\* are waiting in the buffer.
C26_Witness ==
    /\ Len(posted) = 2
    /\ bytesWritten > 0
    /\ posted[1] # posted[2]

\* |a|
Abs(a) == IF a < 0 THEN -a ELSE a

\* C27: a sample array encoded by createPcmBlob and decoded by
\* decodeAudioData comes back with every sample within 1/32768 of its value:
\* |num / Den - q / 32768| <= 1 / 32768.
C27_RoundTripWithinOneStep ==
    (codecStep = "buffer" /\ samples # <<>>)
        => /\ ~audioBuffer.error
           /\ Len(audioBuffer.channels[1]) = Len(samples)
           /\ \A i \in 1..Len(samples) :
                  Abs(samples[i] * Int16Range - audioBuffer.channels[1][i] * Den) <= Den

\* C28: decodeAudioData fails whenever the byte length of its input is not
\* a multiple of 2 * channels.
C28_OddLengthFails ==
    (codecStep = "buffer" /\ Len(decode(blob)) % (2 * numChannels) # 0)
        => audioBuffer.error

\* The ids of the entries of the queue or of the sources of the device.
Ids(list) == {list[k].id : k \in 1..Len(list)}

C32_FlagClearedOnExit == isScheduling => passes # <<>>

\* The numbers of the jobs of the list q.
Jobs(q) == {q[k].job : k \in 1..Len(q)}

\* C33: one drain loop at most: the flag is set exactly while the loop awaits
\* a job, and with the flag clear the job list is empty; no job is in the
\* list twice or in the list and awaited; the awaited job is given up only
\* when its promise has settled; a job leaves the list only by being awaited;
\* and every job of the list comes to be awaited.
C33_OneDrainLoop ==
    /\ [](/\ isProcessingTts = (ttsAwaited.job # 0)
          /\ ~isProcessingTts => ttsPromiseQueue = <<>>
          /\ Cardinality(Jobs(ttsPromiseQueue)) = Len(ttsPromiseQueue)
          /\ ttsAwaited.job \notin Jobs(ttsPromiseQueue))
    /\ [][/\ (ttsAwaited.job # 0 /\ ttsAwaited'.job # ttsAwaited.job)
                => ttsAwaited.state # "pending"
          /\ Jobs(ttsPromiseQueue) \ Jobs(ttsPromiseQueue') \subseteq {ttsAwaited'.job}]_vars
    /\ \A n \in 1..MaxItems : (n \in Jobs(ttsPromiseQueue)) ~> (ttsAwaited.job = n)

\* The second job, submitted while the loop awaited the first, is awaited
\* and the third is in the list.
C33_Witness ==
    /\ ttsAwaited.job = 2
    /\ Jobs(ttsPromiseQueue) = {3}

\* C34: a TTS job is created only while output is enabled and no live
\* session is active.
C34_NoJobWhileOffOrLive ==
    [][(nCreated + 1) \in Jobs(ttsPromiseQueue') \cup {ttsAwaited'.job}
        => isAudioEnabled /\ ~isLiveSessionActive]_vars

\* C35: the windows handed to sendRealtimeInput are the windows posted by
\* the processor, in the order of their posting and each once, as the blobs
\* createPcmBlob makes of them; nothing is sent before sessionPromise has
\* resolved; and a window once sent stays sent.
C35_WindowsSentInOrder ==
    /\ [](/\ Len(uplink.sent) <= uplink.handled
          /\ uplink.handled <= Len(posted)
          /\ \A k \in 1..Len(uplink.sent) :
                 /\ uplink.sent[k].window = k
                 /\ uplink.sent[k].media = createPcmBlob(posted[k])
          /\ uplink.sent # <<>> => uplink.promise = "resolved"
          /\ (uplink.promise = "resolved" /\ uplink.reactions = <<>>)
                 => Len(uplink.sent) = uplink.handled)
    /\ [][\A k \in 1..Len(uplink.sent) :
              k <= Len(uplink'.sent) /\ uplink'.sent[k] = uplink.sent[k]]_vars

\* Three windows have been sent, the first two of different content.
C35_Witness ==
    /\ Len(uplink.sent) = 3
    /\ uplink.sent[1].media # uplink.sent[2].media

\* C36: a dismissal that fires while a message is shown was armed for that
\* message: the message is one that arms a dismissal and no other dismissal
\* is pending, so that none was armed before it.
C36_TimerClearsOwnError ==
    [][(Len(timers') < Len(timers) /\ liveError # "none")
        => /\ liveError \in {"start", "server"}
           /\ Len(timers) = 1]_vars
\* C37: a stream is in flight exactly while isLoading is set; a send is
\* taken only while no stream is in flight; the step that ends a stream,
\* completed or failed, clears isLoading; and isLoading is always cleared
\* again.
C37_OneStreamAtATime ==
    /\ [](isLoading = stream.on)
    /\ [][Len(messages') = Len(messages) + 2 => ~isLoading /\ ~stream.on]_vars
    /\ [][(stream.on /\ ~stream'.on) => ~isLoading']_vars
    /\ isLoading ~> ~isLoading

\* A second reply streams after the first one failed: the list holds the
\* greeting, the two entries of the first send, the apology and the two
\* entries of the second send.
C37_Witness ==
    /\ stream.on
    /\ isLoading
    /\ messagesLength = InitialMessages + 5

\* C38: the history streamChat makes is, in their order, the messages other
\* than the last one whose text is not empty, each with its role and one part
\* holding its text; the prompt of the turn and the empty model entries are
\* not in it.
C38_HistoryIsEarlierTexts ==
    chat.created =>
        LET list == chat.messages
            kept == {k \in 1..(Len(list) - 1) : list[k].text # <<>>}
            Rank(k) == Cardinality({n \in kept : n <= k})
        IN  /\ Len(chat.history) = Cardinality(kept)
            /\ \A k \in kept :
                   chat.history[Rank(k)] =
                       [role |-> list[k].role, parts |-> <<[text |-> list[k].text]>>]
            /\ \A h \in 1..Len(chat.history) : chat.history[h].parts[1].text # <<>>

\* A history was made from a list with an empty model entry and a prompt
\* that is not empty: it has the two other entries.
C38_Witness ==
    /\ chat.created
    /\ Len(chat.messages) = 4
    /\ chat.messages[3] = Entry("model", <<>>)
    /\ chat.messages[4].text # <<>>
    /\ Len(chat.history) = 2

\* The quiz is reset by this step: generateQuiz or resetQuiz.
QuizReset == quiz'.questions = <<>> /\ quiz'.userAnswers = <<>>

\* C39: a recorded answer stays as it is until the quiz is reset, and a step
\* that changes the answers while the questions stay records one answer, for
\* a question that had none, and leaves the others.
C39_AnswerRecordedOnce ==
    /\ [][QuizReset \/ \A q \in 1..Len(quiz.userAnswers) :
              quiz.userAnswers[q] # Null =>
                  /\ q <= Len(quiz'.userAnswers)
                  /\ quiz'.userAnswers[q] = quiz.userAnswers[q]]_vars
    /\ [][(quiz'.userAnswers # quiz.userAnswers /\ quiz'.questions = quiz.questions)
            => /\ Len(quiz'.userAnswers) = Len(quiz.userAnswers)
               /\ \E q \in 1..Len(quiz.userAnswers) :
                      /\ quiz.userAnswers[q] = Null
                      /\ quiz'.userAnswers[q] # Null
                      /\ \A n \in 1..Len(quiz.userAnswers) :
                             n # q => quiz'.userAnswers[n] = quiz.userAnswers[n]]_vars

\* Two questions are answered, with different options, and a third is not.
C39_Witness ==
    /\ QuizShown
    /\ Len(quiz.userAnswers) = 3
    /\ quiz.userAnswers[1] # Null
    /\ quiz.userAnswers[2] # Null
    /\ quiz.userAnswers[1] # quiz.userAnswers[2]
    /\ quiz.userAnswers[3] = Null

\* C40: while the questions are shown the index is one of theirs; a step
\* that moves the index without resetting the quiz adds one to it and is not
\* taken at the last question; the result appears only at the last question;
\* and when the result is shown every question has an answer and the score
\* is at most the number of questions.
C40_IndexInRangeAllAnswered ==
    /\ [](QuizShown => quiz.currentIndex \in 0..(Len(quiz.questions) - 1))
    /\ [](quiz.showResult =>
            /\ Len(quiz.userAnswers) = Len(quiz.questions)
            /\ \A q \in 1..Len(quiz.userAnswers) : quiz.userAnswers[q] # Null
            /\ calculateScore <= Len(quiz.questions))
    /\ [][(quiz'.currentIndex # quiz.currentIndex /\ ~QuizReset)
            => /\ quiz'.currentIndex = quiz.currentIndex + 1
               /\ quiz.currentIndex < Len(quiz.questions) - 1
               /\ ~quiz'.showResult]_vars
    /\ [][(quiz'.showResult /\ ~quiz.showResult)
            => /\ quiz.currentIndex = Len(quiz.questions) - 1
               /\ quiz'.currentIndex = quiz.currentIndex
               /\ hasAnsweredCurrent]_vars

\* The result of a quiz of three questions is shown, with a score of two.
C40_Witness ==
    /\ quiz.showResult
    /\ Len(quiz.questions) = 3
    /\ quiz.currentIndex = 2
    /\ calculateScore = 2

====
